---- MODULE Spec2Model ----
(***************************************************************************)
(* Physics Playground: the launch / settle lifecycle of PhysicsPlayground  *)
(* (game.js), the level repository (LevelManager) and the timers and       *)
(* intervals the game schedules on the host's event loop.                  *)
(*                                                                         *)
(* Every handler of the program runs to completion on the single event     *)
(* loop, so each handler is one atomic action.  Wall-clock time is not     *)
(* modelled: a setTimeout callback may fire at any later step, in the      *)
(* order its delay allows; a setInterval callback may fire at any step     *)
(* while the interval is active.                                           *)
(***************************************************************************)
EXTENDS Integers, Sequences, FiniteSets, TLC

\* ------------------------------------------------------------------ bounds
\* The level number is not advanced beyond MaxLevel.
MaxLevel == 3
\* The score is not raised beyond MaxScore.
MaxScore == 6
\* Interval ids the host hands out (ids of cleared intervals are reused).
MaxIntervals == 2
\* Pending setTimeout callbacks.
MaxTimeouts == 1
\* The level numbers the repository is asked for: 0..MaxSeed.
MaxSeed == 5
\* The calls of getLevel / generateProceduralLevel that are logged.
MaxCalls == 3
\* The keys the keyboard reports as held at the same time.
MaxKeysHeld == 2
\* The particles alive at the same time.
MaxActive == 36
\* The milliseconds the clock of the throttle runs for.
MaxElapsed == 40

\* ------------------------------------------------------- program constants
STARTING_LEVEL == 1
STARTING_SCORE == 0
POINTS_PER_TARGET == 1
POINTS_PER_LEVEL == 3
DEFAULT_ANGLE == 45
DEFAULT_POWER == 50
MIN_ANGLE == 10
MAX_ANGLE == 80
MIN_POWER == 0
MAX_POWER == 100
\* LAUNCHER.VELOCITY_SCALE (0.25) and PROJECTILE.MIN_VELOCITY_THRESHOLD (0.2),
\* both in hundredths.
VELOCITY_SCALE == 25
MIN_VELOCITY_THRESHOLD == 20
LAUNCHER_X == 100
LAUNCHER_Y == 550
LEVEL_TRANSITION_DELAY == 2000
COUNT_PER_EXPLOSION == 18
LIFETIME == 60
\* particleSystem.maxPoolSize
maxPoolSize == 200
WIN_SCREEN_DELAY == 3500
THROTTLE_DELAY == 16

VARIABLES
  gameState,         \* 'loading' | 'playing' | 'paused' | 'levelComplete' | 'gameWon' | 'levelFailed'
  level,             \* this.level
  score,             \* this.score
  highScore,         \* this.highScore
  triesLeft,         \* this.triesLeft
  targets,           \* this.targets: the target bodies created by the last build
  obstacles,         \* this.obstacles
  world,             \* the bodies of the live world (this.world)
  projectile,        \* this.projectile: a body, or Null
  launched,          \* this.launched
  atRest,            \* the projectile's sampled state: speed below the threshold or Y beyond the floor bound
  projectileMonitorInterval,  \* this.projectileMonitorInterval: an interval id, or 0
  activeIntervals,   \* the setInterval callbacks the host still fires
  timeouts,          \* the pending setTimeout callbacks, in scheduling order
  runnerRunning,     \* whether Matter.Runner steps the engine
  predictedPath,     \* this.predictedPath
  levels,            \* levelManager.levels
  proceduralConfig,  \* levelManager.proceduralConfig
  listeners,         \* the event listeners attached to the canvas, the document and the buttons
  loaded,            \* levelManager.loaded
  loadError,         \* levelManager.loadError: a message, or NoError for null
  \* the aiming state of the game and the state of the input handler
  isDragging,        \* this.isDragging
  dragAngle,         \* this.dragAngle
  dragPower,         \* this.dragPower
  keysPressed,       \* inputHandler.keysPressed: the aim keys in it (no other key is looked up)
  keyboardAimInterval,  \* inputHandler.keyboardAimInterval: whether the aim interval runs
  keyboardAngle,     \* inputHandler.keyboardAngle
  keyboardPower,     \* inputHandler.keyboardPower
  launchedAim,       \* the arguments of the last launch() an input handler made and the game accepted
  pointerDown,       \* whether a pointer-down was accepted and no release has followed it
  \* the calls made to the procedural generator, with what each returned
  generated,
  \* the particle system
  particles,         \* particleSystem.particles: the identity and the lifetime of each
  pool,              \* particleSystem.pool: the identities of the particles in it
  created,           \* the number of Particle objects constructed so far
  \* the audio manager and the host's audio capability
  audioContext,      \* audioManager.audioContext: "null", or the state of the context
  enabled,           \* audioManager.enabled
  initialized,       \* audioManager.initialized
  initializationError,  \* audioManager.initializationError
  audioCapability,   \* what window.AudioContext is on this host
  played,            \* the last call of playSoundEffect: its name, the tone it started
                     \* (0 for none), whether it raised, and audioManager.enabled at the call
  \* the host's storage
  localStorage,      \* the item stored under HIGH_SCORE_KEY
  storageFails,      \* whether localStorage.getItem / setItem throw
  \* the throttle of the path updates
  now,               \* what Date.now() returns, in milliseconds
  lastPathUpdate,    \* this.lastPathUpdate
  pathCall           \* the last call of updatePredictedPath made on its own: its arguments and its time

\* The fields of the game and of its level repository.
gameVars == <<gameState, level, score, highScore, triesLeft, targets, obstacles, world,
              projectile, launched, atRest, projectileMonitorInterval, activeIntervals,
              timeouts, runnerRunning, predictedPath, levels, proceduralConfig, listeners,
              loaded, loadError>>
inputVars == <<isDragging, dragAngle, dragPower, keysPressed, keyboardAimInterval,
               keyboardAngle, keyboardPower, launchedAim, pointerDown>>
particleVars == <<particles, pool, created>>
audioVars == <<audioContext, enabled, initialized, initializationError, audioCapability, played>>
storageVars == <<localStorage, storageFails>>
clockVars == <<now, lastPathUpdate, pathCall>>
\* What the handlers of the game's own lifecycle leave alone.
auxVars == <<inputVars, generated, particleVars, audioVars, storageVars, clockVars>>

vars == <<gameVars, auxVars>>

\* ------------------------------------------------------------------ bodies
Null == [label |-> "null", id |-> 0, x |-> 0, y |-> 0]
Body(l, i, px, py) == [label |-> l, id |-> i, x |-> px, y |-> py]
Ground == Body("ground", 0, 400, 590)
Walls == {Body("wall", 1, 0, 300), Body("wall", 2, 800, 300)}
Boundaries == {Ground} \cup Walls

BodiesLabelled(w, l) == {b \in w : b.label = l}

\* getTargetsRemaining(): the bodies of the world labelled 'target'.
GetTargetsRemaining(w) == BodiesLabelled(w, "target")

SeqRange(s) == {s[i] : i \in 1..Len(s)}

\* ------------------------------------------------------- level repository
\* A layout entry: a target {x, y} or an obstacle {x, y, width, height, angle}.
\* numeric is what validateLevel's typeof checks see: every required field of
\* the entry is a number.  Angles are in hundredths of a radian, rounded down.
Target(px, py) == [x |-> px, y |-> py, numeric |-> TRUE]
Obstacle(px, py, w, h, a) ==
  [x |-> px, y |-> py, width |-> w, height |-> h, angle |-> a, numeric |-> TRUE]

\* A level of the data file.  isArray is what Array.isArray sees for the field.
Layout(i, ts, os) ==
  [id |-> i, targets |-> ts, targetsIsArray |-> TRUE,
   obstacles |-> os, obstaclesIsArray |-> TRUE]

NoLayout == [id |-> 0, targets |-> <<>>, targetsIsArray |-> FALSE,
             obstacles |-> <<>>, obstaclesIsArray |-> FALSE]

\* loadFallbackLevels(): the three built-in levels.
FallbackLevels ==
  << Layout(1, <<Target(600, 540), Target(650, 480), Target(700, 420)>>,
               <<Obstacle(400, 530, 100, 20, 0), Obstacle(500, 460, 120, 20, 39)>>),
     Layout(2, <<Target(600, 500), Target(680, 450), Target(730, 400)>>,
               <<Obstacle(430, 520, 140, 20, -32), Obstacle(500, 470, 100, 20, 52)>>),
     Layout(3, <<Target(650, 520), Target(700, 460), Target(750, 400)>>,
               <<Obstacle(420, 530, 120, 20, 39), Obstacle(550, 460, 150, 20, -40)>>) >>

\* proceduralConfig = null (data.proceduralGeneration absent, or the fallback).
NoProcedural ==
  [enabled |-> FALSE, startAfterLevel |-> 0,
   targetCount |-> [min |-> 0, max |-> 0],
   obstacleCount |-> [min |-> 0, max |-> 0],
   targetSpawnArea |-> [minX |-> 0, maxX |-> 0, minY |-> 0, maxY |-> 0],
   obstacleSpawnArea |-> [minX |-> 0, maxX |-> 0, minY |-> 0, maxY |-> 0],
   obstacleSize |-> [minWidth |-> 0, maxWidth |-> 0, height |-> 0],
   obstacleAngleRange |-> [min |-> 0, max |-> 0]]

\* The data files levels.json is drawn from: one with procedural generation
\* enabled after its two hand-authored levels, one whose second level has an
\* empty targets array and no procedural generation, one with a single level
\* and no procedural generation.
ProceduralFile ==
  [levels |-> << Layout(1, <<Target(600, 500)>>, <<>>),
                 Layout(2, <<Target(620, 480), Target(700, 400)>>,
                           <<Obstacle(450, 500, 100, 20, 0)>>) >>,
   proceduralGeneration |->
     [enabled |-> TRUE, startAfterLevel |-> 2,
      targetCount |-> [min |-> 1, max |-> 2],
      obstacleCount |-> [min |-> 0, max |-> 1],
      targetSpawnArea |-> [minX |-> 500, maxX |-> 750, minY |-> 300, maxY |-> 540],
      obstacleSpawnArea |-> [minX |-> 300, maxX |-> 500, minY |-> 400, maxY |-> 540],
      obstacleSize |-> [minWidth |-> 80, maxWidth |-> 150, height |-> 20],
      obstacleAngleRange |-> [min |-> -50, max |-> 50]]]

BrokenFile ==
  [levels |-> << Layout(1, <<Target(600, 500)>>, <<>>),
                 Layout(2, <<>>, <<>>) >>,
   proceduralGeneration |-> NoProcedural]

SingleFile ==
  [levels |-> << Layout(1, <<Target(600, 500)>>, <<>>) >>,
   proceduralGeneration |-> NoProcedural]

DataFiles == {ProceduralFile, BrokenFile, SingleFile}

\* Procedural configs the generator is run with: the one of ProceduralFile, one
\* with the counts and the threshold of the README's example, one whose ranges
\* are all single points, and the first again with generation switched off.
ReadmeConfig ==
  [ProceduralFile.proceduralGeneration EXCEPT
     !.startAfterLevel = 8,
     !.targetCount = [min |-> 3, max |-> 6],
     !.obstacleCount = [min |-> 2, max |-> 5]]

PointConfig ==
  [enabled |-> TRUE, startAfterLevel |-> 1,
   targetCount |-> [min |-> 2, max |-> 2],
   obstacleCount |-> [min |-> 1, max |-> 1],
   targetSpawnArea |-> [minX |-> 600, maxX |-> 600, minY |-> 400, maxY |-> 400],
   obstacleSpawnArea |-> [minX |-> 450, maxX |-> 450, minY |-> 500, maxY |-> 500],
   obstacleSize |-> [minWidth |-> 100, maxWidth |-> 100, height |-> 20],
   obstacleAngleRange |-> [min |-> 0, max |-> 0]]

DisabledConfig == [ProceduralFile.proceduralGeneration EXCEPT !.enabled = FALSE]

GenConfigs == {ProceduralFile.proceduralGeneration, ReadmeConfig, PointConfig, DisabledConfig}

\* floor(min + frac(sin(seed * 9999 + min * 1234 + max * 5678) * 10000) * (max - min))
\* for seed = 1..17, tabulated for the ranges of ProceduralFile and of
\* GenConfigs (TLA+ has no sine).  The last two rows are angle ranges: the
\* hash is taken of the range in radians and the value is rounded down to
\* hundredths.
SineHashFloor ==
  (<<1, 3>> :> <<1, 1, 1, 1, 2, 1, 2, 1, 1, 2, 1, 1, 2, 1, 2, 1, 1>>) @@
  (<<0, 2>> :> <<1, 0, 1, 1, 1, 1, 0, 1, 0, 1, 0, 0, 1, 0, 0, 1, 0>>) @@
  (<<500, 750>> :> <<632, 668, 522, 555, 624, 749, 508, 631, 547, 576, 639, 669, 515, 736, 662, 668, 543>>) @@
  (<<300, 540>> :> <<310, 515, 539, 437, 316, 420, 499, 319, 532, 368, 330, 530, 327, 386, 435, 497, 411>>) @@
  (<<300, 500>> :> <<376, 380, 311, 311, 343, 475, 321, 472, 333, 404, 321, 326, 481, 424, 361, 397, 348>>) @@
  (<<400, 540>> :> <<414, 523, 444, 479, 417, 517, 428, 404, 441, 480, 483, 523, 519, 508, 433, 509, 417>>) @@
  (<<80, 150>> :> <<104, 83, 146, 83, 96, 97, 132, 149, 122, 93, 127, 138, 100, 122, 117, 97, 143>>) @@
  (<<3, 7>> :> <<5, 6, 5, 3, 4, 4, 3, 6, 3, 3, 4, 4, 6, 5, 5, 3, 5>>) @@
  (<<2, 6>> :> <<2, 5, 3, 5, 2, 4, 3, 5, 5, 2, 2, 3, 3, 5, 3, 4, 5>>) @@
  (<<2, 3>> :> <<2, 2, 2, 2, 2, 2, 2, 2, 2, 2, 2, 2, 2, 2, 2, 2, 2>>) @@
  (<<1, 2>> :> <<1, 1, 1, 1, 1, 1, 1, 1, 1, 1, 1, 1, 1, 1, 1, 1, 1>>) @@
  (<<600, 600>> :> <<600, 600, 600, 600, 600, 600, 600, 600, 600, 600, 600, 600, 600, 600, 600, 600, 600>>) @@
  (<<400, 400>> :> <<400, 400, 400, 400, 400, 400, 400, 400, 400, 400, 400, 400, 400, 400, 400, 400, 400>>) @@
  (<<450, 450>> :> <<450, 450, 450, 450, 450, 450, 450, 450, 450, 450, 450, 450, 450, 450, 450, 450, 450>>) @@
  (<<500, 500>> :> <<500, 500, 500, 500, 500, 500, 500, 500, 500, 500, 500, 500, 500, 500, 500, 500, 500>>) @@
  (<<100, 100>> :> <<100, 100, 100, 100, 100, 100, 100, 100, 100, 100, 100, 100, 100, 100, 100, 100, 100>>) @@
  (<<-50, 50>> :> <<3, 15, 47, -33, 32, 9, 34, -8, 7, -3, 44, -48, -47, 36, 21, -17, 20>>) @@
  (<<0, 0>> :> <<0, 0, 0, 0, 0, 0, 0, 0, 0, 0, 0, 0, 0, 0, 0, 0, 0>>)

\* random(min, max) of generateProceduralLevel, rounded down.
Random(seed, min, max) == SineHashFloor[<<min, max>>][seed]

\* randomInt rounding up instead of down.
RandomIntRoundingUp(seed, min, max) == Random(seed, min, max + 1) + 1

\* randomInt(min, max) = Math.floor(random(min, max + 1)).
RandomInt(seed, min, max) == Random(seed, min, max + 1)

\* A generator whose seed advances with every call made to the repository.
GenerateProceduralLevelCountingCalls(levelNumber, config) ==
  LET seed == levelNumber + Len(generated)
      targetCount == RandomInt(seed, config.targetCount.min, config.targetCount.max)
      obstacleCount == RandomInt(seed, config.obstacleCount.min, config.obstacleCount.max)
  IN  Layout(levelNumber,
        [i \in 1..targetCount |->
           Target(Random(seed, config.targetSpawnArea.minX, config.targetSpawnArea.maxX),
                  Random(seed, config.targetSpawnArea.minY, config.targetSpawnArea.maxY))],
        [i \in 1..obstacleCount |->
           Obstacle(Random(seed, config.obstacleSpawnArea.minX, config.obstacleSpawnArea.maxX),
                    Random(seed, config.obstacleSpawnArea.minY, config.obstacleSpawnArea.maxY),
                    Random(seed, config.obstacleSize.minWidth, config.obstacleSize.maxWidth),
                    config.obstacleSize.height,
                    Random(seed, config.obstacleAngleRange.min, config.obstacleAngleRange.max))])

\* generateProceduralLevel(levelNumber) for a non-null config.
GenerateProceduralLevel(levelNumber, config) ==
  LET seed == levelNumber
      targetCount == RandomInt(seed, config.targetCount.min, config.targetCount.max)
      obstacleCount == RandomInt(seed, config.obstacleCount.min, config.obstacleCount.max)
  IN  Layout(levelNumber,
        [i \in 1..targetCount |->
           Target(Random(seed, config.targetSpawnArea.minX, config.targetSpawnArea.maxX),
                  Random(seed, config.targetSpawnArea.minY, config.targetSpawnArea.maxY))],
        [i \in 1..obstacleCount |->
           Obstacle(Random(seed, config.obstacleSpawnArea.minX, config.obstacleSpawnArea.maxX),
                    Random(seed, config.obstacleSpawnArea.minY, config.obstacleSpawnArea.maxY),
                    Random(seed, config.obstacleSize.minWidth, config.obstacleSize.maxWidth),
                    config.obstacleSize.height,
                    Random(seed, config.obstacleAngleRange.min, config.obstacleAngleRange.max))])

\* getLevel generating from the threshold level on.
GetLevelFromThreshold(levelNumber, lvls, config) ==
  IF levelNumber < 1 THEN NoLayout
  ELSE IF config.enabled /\ levelNumber >= config.startAfterLevel
       THEN GenerateProceduralLevel(levelNumber, config)
  ELSE IF Len(lvls) = 0 THEN NoLayout
  ELSE lvls[((levelNumber - 1) % Len(lvls)) + 1]

\* getLevel(levelNumber): a generated layout past the threshold, else the
\* hand-authored levels cycled; NoLayout stands for null.
GetLevel(levelNumber, lvls, config) ==
  IF levelNumber < 1 THEN NoLayout
  ELSE IF config.enabled /\ levelNumber > config.startAfterLevel
       THEN GenerateProceduralLevel(levelNumber, config)
  ELSE IF Len(lvls) = 0 THEN NoLayout
  ELSE lvls[((levelNumber - 1) % Len(lvls)) + 1]

\* generateProceduralLevel(levelNumber) as a method of the repository: without
\* a config it falls back to getLevel(1).
GenerateProceduralLevelOf(levelNumber, lvls, config) ==
  IF config = NoProcedural THEN GetLevel(1, lvls, config)
  ELSE GenerateProceduralLevel(levelNumber, config)

\* getLevelCount()
GetLevelCount(lvls) == Len(lvls)

\* validateLevel(level)
ValidateLevel(lv) ==
  /\ lv # NoLayout
  /\ lv.targetsIsArray /\ Len(lv.targets) # 0
  /\ lv.obstaclesIsArray
  /\ \A i \in 1..Len(lv.targets) : lv.targets[i].numeric
  /\ \A i \in 1..Len(lv.obstacles) : lv.obstacles[i].numeric

\* loadLevels(): the levels and the procedural config the repository ends up
\* with for a fetch response (ok = FALSE: the fetch or the parse failed).
FetchFailed == [ok |-> FALSE, data |-> [levels |-> <<>>, proceduralGeneration |-> NoProcedural]]
Responses == {FetchFailed} \cup {[ok |-> TRUE, data |-> f] : f \in DataFiles}

\* this.loadError = null, and the message of a caught error.
NoError == "null"
FetchError == "Failed to load levels"

\* loadLevels() whose catch block records the error and loads nothing.
LoadLevelsWithoutFallback(response) ==
  IF response.ok
  THEN [levels |-> response.data.levels, proceduralConfig |-> response.data.proceduralGeneration,
        loaded |-> TRUE, loadError |-> NoError, returned |-> TRUE]
  ELSE [levels |-> <<>>, proceduralConfig |-> NoProcedural,
        loaded |-> FALSE, loadError |-> FetchError, returned |-> FALSE]

\* loadLevels(), on a repository as the constructor leaves it: what it assigns
\* and what it returns.  The catch block keeps proceduralConfig (null) and
\* calls loadFallbackLevels().
LoadLevels(response) ==
  IF response.ok
  THEN [levels |-> response.data.levels, proceduralConfig |-> response.data.proceduralGeneration,
        loaded |-> TRUE, loadError |-> NoError, returned |-> TRUE]
  ELSE [levels |-> FallbackLevels, proceduralConfig |-> NoProcedural,
        loaded |-> TRUE, loadError |-> FetchError, returned |-> FALSE]

\* --------------------------------------------------------------- the game
\* What playSoundEffect did: the tone it started (or "none") and whether it raised.
NothingPlayed == [name |-> "none", frequency |-> 0, raised |-> FALSE, enabled |-> TRUE]

\* localStorage.getItem for a key that was never set: null.
NoItem == <<>>

\* The high score found in localStorage by the constructor (loadHighScore).
StoredHighScores == {0}

\* The (angle, power) pairs the input adapters hand to launch().
Aims == {[angle |-> DEFAULT_ANGLE, power |-> DEFAULT_POWER],
         [angle |-> MIN_ANGLE, power |-> MIN_POWER]}

\* setupEventListeners(): the listeners the input handler registers.  The
\* canvas and document listeners are the handler's bound methods; the two
\* button listeners are anonymous functions.
CanvasListeners == {"mousedown", "mousemove", "mouseup", "touchstart", "touchmove", "touchend"}
DocumentListeners == {"keydown", "keyup"}
ButtonListeners == {"resetBtn.click", "soundToggleBtn.click"}
SetupEventListeners == CanvasListeners \cup DocumentListeners \cup ButtonListeners

\* InputHandler.dispose(): the listeners left of ls.
InputHandlerDispose(ls) == ls \ (CanvasListeners \cup DocumentListeners)

\* No launch was made yet.
NoAim == [angle |-> -1, power |-> -1]

\* The (angle, power) pairs as the constructors of the game and of the input
\* handler set them.
InputInit ==
  /\ isDragging = FALSE
  /\ dragAngle = DEFAULT_ANGLE
  /\ dragPower = DEFAULT_POWER
  /\ keysPressed = {}
  /\ keyboardAimInterval = FALSE
  /\ keyboardAngle = DEFAULT_ANGLE
  /\ keyboardPower = DEFAULT_POWER
  /\ launchedAim = NoAim
  /\ pointerDown = FALSE

\* The constructor of ParticleSystem.
ParticleInit ==
  /\ particles = <<>>
  /\ pool = <<>>
  /\ created = 0

\* The constructor of AudioManager, on a host with the Web Audio API.
AudioInit ==
  /\ audioContext = "null"
  /\ enabled = TRUE
  /\ initialized = FALSE
  /\ initializationError = FALSE
  /\ audioCapability = "supported"
  /\ played = NothingPlayed

\* A host whose storage works and holds no high score.
StorageInit ==
  /\ localStorage = NoItem
  /\ storageFails = FALSE

\* The clock of the host when the game is constructed, in milliseconds since
\* the page was opened; Date.now() counts from 1970 and is far larger.
ClockStart == 1000

\* No call of updatePredictedPath was made on its own yet.
NoCall == [angle |-> -1, power |-> -1, at |-> 0]

\* The constructor of the game: the time stamp of the throttle.
ClockInit ==
  /\ now = ClockStart
  /\ lastPathUpdate = 0
  /\ pathCall = NoCall

\* The constructor of the game: its own fields.
GameInit ==
  /\ gameState = "loading"
  /\ level = STARTING_LEVEL
  /\ score = STARTING_SCORE
  /\ highScore \in StoredHighScores
  /\ triesLeft = 0
  /\ targets = <<>>
  /\ obstacles = <<>>
  /\ world = {}
  /\ projectile = Null
  /\ launched = FALSE
  /\ atRest = FALSE
  /\ projectileMonitorInterval = 0
  /\ activeIntervals = {}
  /\ timeouts = <<>>
  /\ runnerRunning = FALSE
  /\ predictedPath = <<>>
  /\ levels = <<>>
  /\ proceduralConfig = NoProcedural
  /\ listeners = {}
  /\ loaded = FALSE
  /\ loadError = NoError

\* The constructors.
Init ==
  /\ GameInit
  /\ InputInit
  /\ generated = <<>>
  /\ ParticleInit
  /\ AudioInit
  /\ StorageInit
  /\ ClockInit

\* computePredictedPath(angle, power): the polyline of the free flight, kept
\* here as the aim it was computed from.
ComputePredictedPath(angleDegrees, power) == <<[angle |-> angleDegrees, power |-> power]>>

\* updatePredictedPath(angle, power): skipped when throttled, that is when
\* less than THROTTLE_DELAY has passed since the last performed update.
UpdatePredictedPath(angleDegrees, power, throttled) ==
  IF throttled
  THEN UNCHANGED predictedPath
  ELSE predictedPath' = ComputePredictedPath(angleDegrees, power)

\* buildLevel() that grants one try fewer than the level has targets.
BuildLevelShortOfTries(levelNumber, lvls, config, throttled) ==
  LET levelData == GetLevel(levelNumber, lvls, config)
      ts == [i \in 1..Len(levelData.targets) |->
               Body("target", i, levelData.targets[i].x, levelData.targets[i].y)]
      os == [i \in 1..Len(levelData.obstacles) |->
               Body("obstacle", i, levelData.obstacles[i].x, levelData.obstacles[i].y)]
  IN  /\ projectile' = Null
      /\ launched' = FALSE
      /\ atRest' = FALSE
      /\ IF ~ValidateLevel(levelData)
         THEN /\ world' = Boundaries
              /\ targets' = <<>>
              /\ obstacles' = <<>>
              /\ UNCHANGED <<triesLeft, predictedPath>>
         ELSE /\ targets' = ts
              /\ obstacles' = os
              /\ world' = Boundaries \cup SeqRange(ts) \cup SeqRange(os)
              /\ triesLeft' = Len(ts) - 1
              /\ UpdatePredictedPath(DEFAULT_ANGLE, DEFAULT_POWER, throttled)

\* buildLevel() that clears the world and keeps the projectile handle.
BuildLevelKeepingHandle(levelNumber, lvls, config, throttled) ==
  LET levelData == GetLevel(levelNumber, lvls, config)
      ts == [i \in 1..Len(levelData.targets) |->
               Body("target", i, levelData.targets[i].x, levelData.targets[i].y)]
      os == [i \in 1..Len(levelData.obstacles) |->
               Body("obstacle", i, levelData.obstacles[i].x, levelData.obstacles[i].y)]
  IN  /\ UNCHANGED projectile
      /\ launched' = FALSE
      /\ atRest' = FALSE
      /\ IF ~ValidateLevel(levelData)
         THEN /\ world' = Boundaries
              /\ targets' = <<>>
              /\ obstacles' = <<>>
              /\ UNCHANGED <<triesLeft, predictedPath>>
         ELSE /\ targets' = ts
              /\ obstacles' = os
              /\ world' = Boundaries \cup SeqRange(ts) \cup SeqRange(os)
              /\ triesLeft' = Len(ts)
              /\ UpdatePredictedPath(DEFAULT_ANGLE, DEFAULT_POWER, throttled)

\* buildLevel(levelNumber), with the repository's levels and config; throttled
\* tells whether its path update falls within the throttle delay.
BuildLevel(levelNumber, lvls, config, throttled) ==
  LET levelData == GetLevel(levelNumber, lvls, config)
      ts == [i \in 1..Len(levelData.targets) |->
               Body("target", i, levelData.targets[i].x, levelData.targets[i].y)]
      os == [i \in 1..Len(levelData.obstacles) |->
               Body("obstacle", i, levelData.obstacles[i].x, levelData.obstacles[i].y)]
  IN  /\ projectile' = Null
      /\ launched' = FALSE
      /\ atRest' = FALSE
      /\ IF ~ValidateLevel(levelData)
         THEN /\ world' = Boundaries
              /\ targets' = <<>>
              /\ obstacles' = <<>>
              /\ UNCHANGED <<triesLeft, predictedPath>>
         ELSE /\ targets' = ts
              /\ obstacles' = os
              /\ world' = Boundaries \cup SeqRange(ts) \cup SeqRange(os)
              /\ triesLeft' = Len(ts)
              /\ UpdatePredictedPath(DEFAULT_ANGLE, DEFAULT_POWER, throttled)

\* initialize(): load the levels, create the boundaries, start the runner,
\* build the first level, enter 'playing'.
Initialize ==
  /\ gameState = "loading"
  /\ \E response \in Responses :
       LET repo == LoadLevels(response)
       IN  /\ levels' = repo.levels
           /\ proceduralConfig' = repo.proceduralConfig
           /\ loaded' = repo.loaded
           /\ loadError' = repo.loadError
           /\ BuildLevel(level, repo.levels, repo.proceduralConfig, FALSE)
  /\ runnerRunning' = TRUE
  /\ gameState' = "playing"
  /\ listeners' = SetupEventListeners
  /\ UNCHANGED <<level, score, highScore, projectileMonitorInterval, activeIntervals, timeouts,
                 auxVars>>

\* The id setInterval returns: one no active interval holds.
FreeIntervals == (1..MaxIntervals) \ activeIntervals
NewInterval == CHOOSE i \in FreeIntervals : \A j \in FreeIntervals : i <= j

\* The handle of a newly created projectile body: one no body of the world holds.
NewProjectile ==
  LET used == {b.id : b \in BodiesLabelled(world, "projectile")}
      n == CHOOSE k \in 1..(Cardinality(used) + 1) : k \notin used
  IN  Body("projectile", n, LAUNCHER_X, LAUNCHER_Y)

\* launch() guarded without the tries check.
LaunchAcceptedIgnoringTries == ~launched /\ gameState = "playing"

\* launch() guarded without the in-flight check.
LaunchAcceptedIgnoringLaunched == triesLeft > 0 /\ gameState = "playing"

\* The guard of launch().
LaunchAccepted == ~launched /\ triesLeft > 0 /\ gameState = "playing"

\* launch() that keeps the predicted path and the tries counter.
LaunchKeepingPathAndTries(angleDegrees, power) ==
  IF ~LaunchAccepted
  THEN UNCHANGED gameVars
  ELSE /\ FreeIntervals # {}
       /\ launched' = TRUE
       /\ projectile' = NewProjectile
       /\ world' = world \cup {NewProjectile}
       /\ atRest' = (power * VELOCITY_SCALE < MIN_VELOCITY_THRESHOLD)
       /\ activeIntervals' = activeIntervals \cup {NewInterval}
       /\ projectileMonitorInterval' = NewInterval
       /\ UNCHANGED <<gameState, level, score, highScore, targets, obstacles, timeouts,
                      runnerRunning, levels, proceduralConfig, listeners, loaded, loadError,
                      triesLeft, predictedPath>>

\* launch(angleDegrees, power), monitorProjectile() included.
Launch(angleDegrees, power) ==
  IF ~LaunchAccepted
  THEN UNCHANGED gameVars
  ELSE /\ FreeIntervals # {}
       /\ launched' = TRUE
       /\ triesLeft' = triesLeft - 1
       /\ projectile' = NewProjectile
       /\ world' = world \cup {NewProjectile}
       /\ atRest' = (power * VELOCITY_SCALE < MIN_VELOCITY_THRESHOLD)
       /\ predictedPath' = <<>>
       /\ activeIntervals' = activeIntervals \cup {NewInterval}
       /\ projectileMonitorInterval' = NewInterval
       /\ UNCHANGED <<gameState, level, score, highScore, targets, obstacles, timeouts,
                      runnerRunning, levels, proceduralConfig, listeners, loaded, loadError>>

\* handleKeyDown for Space / Enter.
KeyLaunch ==
  /\ gameState # "loading"
  /\ "keydown" \in listeners
  /\ IF ~launched /\ gameState = "playing"
     THEN (\E aim \in Aims : Launch(aim.angle, aim.power)) /\ UNCHANGED auxVars
     ELSE UNCHANGED vars
\* launch() called directly on the game object, in any state after loading.
LaunchCall ==
  /\ gameState # "loading"
  /\ \E aim \in Aims : Launch(aim.angle, aim.power)
  /\ UNCHANGED auxVars

\* checkEndConditions() failing the level when one try is left.
OutcomeFailsEarly(w, tries, lvl, lvls, config) ==
  IF GetTargetsRemaining(w) = {}
  THEN IF lvl < GetLevelCount(lvls) \/ config.enabled THEN "LevelComplete" ELSE "GameWon"
  ELSE IF tries <= 1 THEN "OutOfTries" ELSE "StillPlaying"

\* checkEndConditions() testing the tries before the remaining targets.
OutcomeTriesFirst(w, tries, lvl, lvls, config) ==
  IF tries <= 0 /\ lvl >= 1
  THEN "OutOfTries"
  ELSE IF GetTargetsRemaining(w) = {}
  THEN IF lvl < GetLevelCount(lvls) \/ config.enabled THEN "LevelComplete" ELSE "GameWon"
  ELSE "StillPlaying"

\* checkEndConditions() counting the last hand-authored level as not the last.
OutcomeOffByOneLevel(w, tries, lvl, lvls, config) ==
  IF GetTargetsRemaining(w) = {}
  THEN IF lvl <= GetLevelCount(lvls) \/ config.enabled THEN "LevelComplete" ELSE "GameWon"
  ELSE IF tries <= 0 THEN "OutOfTries" ELSE "StillPlaying"

\* checkEndConditions() without its test of the tries.
OutcomeNeverOutOfTries(w, tries, lvl, lvls, config) ==
  IF GetTargetsRemaining(w) = {}
  THEN IF lvl < GetLevelCount(lvls) \/ config.enabled THEN "LevelComplete" ELSE "GameWon"
  ELSE "StillPlaying"

\* The outcome checkEndConditions() decides for the bodies w of the world.
Outcome(w, tries, lvl, lvls, config) ==
  IF GetTargetsRemaining(w) = {}
  THEN IF lvl < GetLevelCount(lvls) \/ config.enabled THEN "LevelComplete" ELSE "GameWon"
  ELSE IF tries <= 0 THEN "OutOfTries" ELSE "StillPlaying"

\* A setTimeout callback: its kind, and the level at which it was scheduled
\* (the callbacks read this.level when they run; lvl is kept for the properties).
Timeout(k) == [kind |-> k, lvl |-> level]

Delay(kind) == IF kind = "win" THEN WIN_SCREEN_DELAY ELSE LEVEL_TRANSITION_DELAY

\* handleLevelComplete()
HandleLevelComplete ==
  /\ score + POINTS_PER_LEVEL <= MaxScore
  /\ Len(timeouts) < MaxTimeouts
  /\ gameState' = "levelComplete"
  /\ score' = score + POINTS_PER_LEVEL
  /\ highScore' = IF score' > highScore THEN score' ELSE highScore
  /\ timeouts' = Append(timeouts, Timeout("advance"))

\* handleGameWin()
HandleGameWin ==
  /\ Len(timeouts) < MaxTimeouts
  /\ gameState' = "gameWon"
  /\ timeouts' = Append(timeouts, Timeout("win"))
  /\ UNCHANGED <<score, highScore>>

\* handleLevelFailed() that sets the high score back to the current score.
HandleLevelFailedDroppingHighScore ==
  /\ Len(timeouts) < MaxTimeouts
  /\ gameState' = "levelFailed"
  /\ timeouts' = Append(timeouts, Timeout("retry"))
  /\ highScore' = score
  /\ UNCHANGED score

\* handleLevelFailed()
HandleLevelFailed ==
  /\ Len(timeouts) < MaxTimeouts
  /\ gameState' = "levelFailed"
  /\ timeouts' = Append(timeouts, Timeout("retry"))
  /\ UNCHANGED <<score, highScore>>

\* checkEndConditions(), run on the world w the settlement leaves.
CheckEndConditions(w) ==
  LET outcome == Outcome(w, triesLeft, level, levels, proceduralConfig)
  IN  CASE outcome = "LevelComplete" -> HandleLevelComplete
        [] outcome = "GameWon" -> HandleGameWin
        [] outcome = "OutOfTries" -> HandleLevelFailed
        [] OTHER -> UNCHANGED <<gameState, score, highScore, timeouts>>

\* A poll tick whose settlement leaves the projectile body in the world.
PollTickLeavingBody(i) ==
  /\ i \in activeIntervals
  /\ IF projectile = Null
     THEN /\ activeIntervals' = activeIntervals \ {projectileMonitorInterval}
          /\ UNCHANGED <<gameState, level, score, highScore, triesLeft, targets, obstacles,
                         world, projectile, launched, atRest, projectileMonitorInterval,
                         timeouts, runnerRunning, predictedPath, levels,
                         proceduralConfig, listeners, loaded, loadError, auxVars>>
     ELSE IF atRest
     THEN /\ world' = world
          /\ projectile' = Null
          /\ launched' = FALSE
          /\ atRest' = FALSE
          /\ activeIntervals' = activeIntervals \ {projectileMonitorInterval}
          /\ CheckEndConditions(world')
          /\ UNCHANGED <<level, triesLeft, targets, obstacles, projectileMonitorInterval,
                         runnerRunning, predictedPath, levels, proceduralConfig, listeners, loaded, loadError, auxVars>>
     ELSE UNCHANGED vars

\* One firing of the setInterval callback of monitorProjectile() with id i.
\* clearInterval is always given this.projectileMonitorInterval.
PollTick(i) ==
  /\ i \in activeIntervals
  /\ IF projectile = Null
     THEN /\ activeIntervals' = activeIntervals \ {projectileMonitorInterval}
          /\ UNCHANGED <<gameState, level, score, highScore, triesLeft, targets, obstacles,
                         world, projectile, launched, atRest, projectileMonitorInterval,
                         timeouts, runnerRunning, predictedPath, levels,
                         proceduralConfig, listeners, loaded, loadError, auxVars>>
     ELSE IF atRest
     THEN /\ world' = world \ {projectile}
          /\ projectile' = Null
          /\ launched' = FALSE
          /\ atRest' = FALSE
          /\ activeIntervals' = activeIntervals \ {projectileMonitorInterval}
          /\ CheckEndConditions(world')
          /\ UNCHANGED <<level, triesLeft, targets, obstacles, projectileMonitorInterval,
                         runnerRunning, predictedPath, levels, proceduralConfig, listeners, loaded, loadError, auxVars>>
     ELSE UNCHANGED vars

\* resetGame() that also clears the high score.
ResetGameClearingHighScore ==
  /\ level' = STARTING_LEVEL
  /\ score' = STARTING_SCORE
  /\ highScore' = STARTING_SCORE
  /\ \E throttled \in BOOLEAN : BuildLevel(STARTING_LEVEL, levels, proceduralConfig, throttled)
  /\ gameState' = "playing"
  /\ UNCHANGED <<projectileMonitorInterval, activeIntervals, runnerRunning,
                 levels, proceduralConfig, listeners, loaded, loadError, auxVars>>

\* resetGame(): the fields it assigns; the callers leave the rest alone.
ResetGame ==
  /\ level' = STARTING_LEVEL
  /\ score' = STARTING_SCORE
  /\ \E throttled \in BOOLEAN : BuildLevel(STARTING_LEVEL, levels, proceduralConfig, throttled)
  /\ gameState' = "playing"
  /\ UNCHANGED <<highScore, projectileMonitorInterval, activeIntervals, runnerRunning,
                 levels, proceduralConfig, listeners, loaded, loadError, auxVars>>

\* The R key or the reset button.
Reset ==
  /\ gameState # "loading"
  /\ "keydown" \in listeners \/ "resetBtn.click" \in listeners
  /\ ResetGame
  /\ UNCHANGED timeouts

\* The pending callback at position k may run now: every callback scheduled
\* before it has a longer delay.
CanFire(k) ==
  /\ k \in 1..Len(timeouts)
  /\ \A j \in 1..(k - 1) : Delay(timeouts[j].kind) > Delay(timeouts[k].kind)

Remove(s, k) == [i \in 1..(Len(s) - 1) |-> IF i < k THEN s[i] ELSE s[i + 1]]

\* The setTimeout callback of handleLevelComplete().
AdvanceTimeout(k) ==
  /\ CanFire(k)
  /\ timeouts[k].kind = "advance"
  /\ level < MaxLevel
  /\ level' = level + 1
  /\ \E throttled \in BOOLEAN : BuildLevel(level + 1, levels, proceduralConfig, throttled)
  /\ gameState' = "playing"
  /\ timeouts' = Remove(timeouts, k)
  /\ UNCHANGED <<score, highScore, projectileMonitorInterval, activeIntervals,
                 runnerRunning, levels, proceduralConfig, listeners, loaded, loadError, auxVars>>

\* The setTimeout callback of handleLevelFailed().
RetryTimeout(k) ==
  /\ CanFire(k)
  /\ timeouts[k].kind = "retry"
  /\ \E throttled \in BOOLEAN : BuildLevel(level, levels, proceduralConfig, throttled)
  /\ gameState' = "playing"
  /\ timeouts' = Remove(timeouts, k)
  /\ UNCHANGED <<level, score, highScore, projectileMonitorInterval, activeIntervals,
                 runnerRunning, levels, proceduralConfig, listeners, loaded, loadError, auxVars>>

\* The setTimeout callback of handleGameWin().
WinTimeout(k) ==
  /\ CanFire(k)
  /\ timeouts[k].kind = "win"
  /\ ResetGame
  /\ timeouts' = Remove(timeouts, k)

\* handleCollision() that scores the hits and leaves the targets in the world.
HandleCollisionKeepingTargets(hit) ==
  /\ score + Cardinality(hit) * POINTS_PER_TARGET <= MaxScore
  /\ world' = world
  /\ score' = score + Cardinality(hit) * POINTS_PER_TARGET

\* handleCollision(event): hit is the set of targets of the event's
\* projectile-target pairs; each is removed from the world and scored.
HandleCollision(hit) ==
  /\ score + Cardinality(hit) * POINTS_PER_TARGET <= MaxScore
  /\ world' = world \ hit
  /\ score' = score + Cardinality(hit) * POINTS_PER_TARGET

\* One step of the engine under the runner: the projectile moves (its sampled
\* state may change either way) and may start touching a target of the world.
PhysicsStep ==
  /\ runnerRunning
  /\ BodiesLabelled(world, "projectile") # {}
  /\ atRest' \in BOOLEAN
  /\ \/ UNCHANGED <<world, score>>
     \/ \E hit \in (SUBSET GetTargetsRemaining(world)) \ {{}} : HandleCollision(hit)
  /\ UNCHANGED <<gameState, level, highScore, triesLeft, targets, obstacles, projectile,
                 launched, projectileMonitorInterval, activeIntervals, timeouts,
                 runnerRunning, predictedPath, levels, proceduralConfig, listeners, loaded, loadError, auxVars>>

\* What pause() and resume() read and write, with the fields of the round.
RoundState ==
  [gameState |-> gameState, runnerRunning |-> runnerRunning, level |-> level,
   score |-> score, triesLeft |-> triesLeft, launched |-> launched,
   projectile |-> projectile]

\* pause() without its test of the game state.
PauseOnFromAnyState(st) == [st EXCEPT !.gameState = "paused", !.runnerRunning = FALSE]

\* pause() on the state st: what it leaves.
PauseOn(st) ==
  IF st.gameState = "playing"
  THEN [st EXCEPT !.gameState = "paused", !.runnerRunning = FALSE]
  ELSE st

\* resume() on the state st: what it leaves.
ResumeOn(st) ==
  IF st.gameState = "paused"
  THEN [st EXCEPT !.gameState = "playing", !.runnerRunning = TRUE]
  ELSE st

\* pause(), as handleKeyDown calls it for Escape / P or as called on the game.
Pause ==
  /\ "keydown" \in listeners
  /\ gameState' = PauseOn(RoundState).gameState
  /\ runnerRunning' = PauseOn(RoundState).runnerRunning
  /\ UNCHANGED <<level, score, highScore, triesLeft, targets, obstacles, world, projectile,
                 launched, atRest, projectileMonitorInterval, activeIntervals, timeouts,
                 predictedPath, levels, proceduralConfig, listeners, loaded, loadError, auxVars>>

\* resume(), as handleKeyDown calls it for Escape / P or as called on the game.
Resume ==
  /\ "keydown" \in listeners
  /\ gameState' = ResumeOn(RoundState).gameState
  /\ runnerRunning' = ResumeOn(RoundState).runnerRunning
  /\ UNCHANGED <<level, score, highScore, triesLeft, targets, obstacles, world, projectile,
                 launched, atRest, projectileMonitorInterval, activeIntervals, timeouts,
                 predictedPath, levels, proceduralConfig, listeners, loaded, loadError, auxVars>>

\* dispose(): the frame request and the interval held in
\* projectileMonitorInterval are cancelled, the runner is stopped, the input
\* handler removes its bound listeners.
Dispose ==
  /\ activeIntervals' = activeIntervals \ {projectileMonitorInterval}
  /\ runnerRunning' = FALSE
  /\ listeners' = InputHandlerDispose(listeners)
  /\ UNCHANGED <<gameState, level, score, highScore, triesLeft, targets, obstacles, world,
                 projectile, launched, atRest, projectileMonitorInterval, timeouts,
                 predictedPath, levels, proceduralConfig, loaded, loadError, auxVars>>

Next ==
  \/ Initialize
  \/ KeyLaunch
  \/ LaunchCall
  \/ \E i \in 1..MaxIntervals : PollTick(i)
  \/ PhysicsStep
  \/ Reset
  \/ \E k \in 1..MaxTimeouts : AdvanceTimeout(k)
  \/ \E k \in 1..MaxTimeouts : RetryTimeout(k)
  \/ \E k \in 1..MaxTimeouts : WinTimeout(k)
  \/ Pause
  \/ Resume

Spec == Init /\ [][Next]_vars

\* The game with its teardown: dispose() may be called at any time.
TeardownNext ==
  \/ Next
  \/ Dispose

TeardownSpec == Init /\ [][TeardownNext]_vars

\* ------------------------------------------- the level repository on its own
\* The responses the repository is loaded from: those of the game, and
\* ProceduralFile's levels with each of GenConfigs.
GenResponses ==
  Responses \cup
  {[ok |-> TRUE, data |-> [levels |-> ProceduralFile.levels, proceduralGeneration |-> c]] :
     c \in GenConfigs}

\* levelManager.loadLevels(), called once.
LoadRepository ==
  /\ ~loaded
  /\ \E response \in GenResponses :
       LET r == LoadLevels(response)
       IN  /\ levels' = r.levels
           /\ proceduralConfig' = r.proceduralConfig
           /\ loaded' = r.loaded
           /\ loadError' = r.loadError
  /\ UNCHANGED <<gameState, level, score, highScore, triesLeft, targets, obstacles, world,
                 projectile, launched, atRest, projectileMonitorInterval, activeIntervals,
                 timeouts, runnerRunning, predictedPath, listeners>>
  /\ UNCHANGED auxVars

CallRecord(name, n, layout) == [call |-> name, levelNumber |-> n, returned |-> layout]

\* levelManager.generateProceduralLevel(n), with what it returned.
GenerateCall ==
  /\ loaded
  /\ Len(generated) < MaxCalls
  /\ \E n \in 1..MaxSeed :
       generated' = Append(generated,
                      CallRecord("generateProceduralLevel", n,
                                 GenerateProceduralLevelOf(n, levels, proceduralConfig)))
  /\ UNCHANGED <<gameVars, clockVars, inputVars, particleVars, audioVars, storageVars>>

\* levelManager.getLevel(n), with what it returned.
GetLevelCall ==
  /\ loaded
  /\ Len(generated) < MaxCalls
  /\ \E n \in 0..MaxSeed :
       generated' = Append(generated,
                      CallRecord("getLevel", n, GetLevel(n, levels, proceduralConfig)))
  /\ UNCHANGED <<gameVars, clockVars, inputVars, particleVars, audioVars, storageVars>>

GenNext ==
  \/ LoadRepository
  \/ GenerateCall
  \/ GetLevelCall

GenSpec == Init /\ [][GenNext]_vars

\* ------------------------------------------------------- the input handler
Min(a, b) == IF a <= b THEN a ELSE b
Max(a, b) == IF a >= b THEN a ELSE b

\* Pointer positions (offsetX, offsetY): two on the canvas, and one a touch
\* reaches after leaving the canvas.  RawAim is what updateAimFromMouse
\* computes for them before clamping, rounded down: the angle
\* atan2(LAUNCHER_Y - y, x - LAUNCHER_X) in degrees and the power
\* (distance / 4) ^ 0.85.
CanvasPoints == {<<300, 350>>, <<700, 560>>}
TouchPoints == CanvasPoints \cup {<<150, -800>>}
RawAim ==
  (<<300, 350>> :> [angle |-> 45, power |-> 37]) @@
  (<<700, 560>> :> [angle |-> -1, power |-> 70]) @@
  (<<150, -800>> :> [angle |-> 87, power |-> 141])

\* The keys that aim ('w', 's', 'a', 'd' are handled as the arrows are).
AimKeys == {"arrowup", "arrowdown", "arrowleft", "arrowright"}

\* The keyboard aims the handler is explored around: the default aim and the
\* two corners of the aiming range, each reached by holding aim keys.
AnglesTried == {MIN_ANGLE, MIN_ANGLE + 1, DEFAULT_ANGLE, DEFAULT_ANGLE + 1,
                MAX_ANGLE - 1, MAX_ANGLE}
PowersTried == {MIN_POWER, MIN_POWER + 1, DEFAULT_POWER - 1, DEFAULT_POWER,
                MAX_POWER - 1, MAX_POWER}
KeyboardAimsAtStart ==
  {[angle |-> DEFAULT_ANGLE, power |-> DEFAULT_POWER],
   [angle |-> MIN_ANGLE, power |-> MIN_POWER],
   [angle |-> MAX_ANGLE, power |-> MAX_POWER]}

\* updatePredictedPath(angle, power) that leaves the ball of its simulation in
\* the live world.
UpdatePredictedPathInLiveWorld(angleDegrees, power) ==
  /\ \E throttled \in BOOLEAN : UpdatePredictedPath(angleDegrees, power, throttled)
  /\ world' = world \cup {Body("tempBall", 0, LAUNCHER_X, LAUNCHER_Y)}
  /\ UNCHANGED <<gameState, level, score, highScore, triesLeft, targets, obstacles,
                 projectile, launched, atRest, projectileMonitorInterval, activeIntervals,
                 timeouts, runnerRunning, levels, proceduralConfig, listeners, loaded,
                 loadError>>

\* updatePredictedPath(angle, power) as the input handler calls it: throttled
\* or not, it writes the predicted path and nothing else of the game.
UpdatePredictedPathCall(angleDegrees, power) ==
  /\ \E throttled \in BOOLEAN : UpdatePredictedPath(angleDegrees, power, throttled)
  /\ UNCHANGED <<gameState, level, score, highScore, triesLeft, targets, obstacles, world,
                 projectile, launched, atRest, projectileMonitorInterval, activeIntervals,
                 timeouts, runnerRunning, levels, proceduralConfig, listeners, loaded,
                 loadError>>

\* updateAimFromMouse without the clamps.
UpdateAimFromMouseUnclamped(pt) ==
  LET angle == RawAim[pt].angle
      power == RawAim[pt].power
  IN  /\ dragAngle' = angle
      /\ dragPower' = power
      /\ UpdatePredictedPathCall(angle, power)

\* updateAimFromMouse(mouseX, mouseY), pt = <<mouseX, mouseY>>.
UpdateAimFromMouse(pt) ==
  LET angle == Min(MAX_ANGLE, Max(MIN_ANGLE, RawAim[pt].angle))
      power == Min(MAX_POWER, RawAim[pt].power)
  IN  /\ dragAngle' = angle
      /\ dragPower' = power
      /\ UpdatePredictedPathCall(angle, power)

\* What the pointer handlers leave alone.
keyboardVars == <<keysPressed, keyboardAimInterval, keyboardAngle, keyboardPower>>
otherVars == <<generated, particleVars, audioVars, storageVars, clockVars>>

\* The pointer-down handlers: handleMouseDown (on the canvas) and
\* handleTouchStart.
PointerDown(event, points) ==
  /\ event \in listeners
  /\ IF launched \/ gameState # "playing"
     THEN UNCHANGED vars
     ELSE /\ isDragging' = TRUE
          /\ \E pt \in points : UpdateAimFromMouse(pt)
          /\ pointerDown' = TRUE
          /\ UNCHANGED <<keyboardVars, launchedAim, otherVars>>

\* handleMouseMove / handleTouchMove.
PointerMove(event, points) ==
  /\ event \in listeners
  /\ IF ~isDragging \/ gameState # "playing"
     THEN UNCHANGED vars
     ELSE /\ \E pt \in points : UpdateAimFromMouse(pt)
          /\ UNCHANGED <<isDragging, keyboardVars, launchedAim, pointerDown, otherVars>>

\* launch(angle, power) called by an input handler: the accepted aim is recorded.
LaunchFromInput(angleDegrees, power) ==
  /\ Launch(angleDegrees, power)
  /\ launchedAim' = IF LaunchAccepted THEN [angle |-> angleDegrees, power |-> power]
                    ELSE launchedAim

\* handleMouseUp / handleTouchEnd.
PointerUp(event) ==
  /\ event \in listeners
  /\ pointerDown' = FALSE
  /\ IF ~isDragging \/ gameState # "playing"
     THEN UNCHANGED <<gameVars, isDragging, dragAngle, dragPower, keyboardVars, launchedAim,
                      otherVars>>
     ELSE /\ isDragging' = FALSE
          /\ LaunchFromInput(dragAngle, dragPower)
          /\ UNCHANGED <<dragAngle, dragPower, keyboardVars, otherVars>>

HandleMouseDown == PointerDown("mousedown", CanvasPoints)
HandleMouseMove == PointerMove("mousemove", CanvasPoints)
HandleMouseUp == PointerUp("mouseup")
HandleTouchStart == PointerDown("touchstart", TouchPoints)
HandleTouchMove == PointerMove("touchmove", TouchPoints)
HandleTouchEnd == PointerUp("touchend")

\* handleKeyDown for Space / Enter: the keyboard's aim is launched.
HandleKeyDownSpace ==
  /\ "keydown" \in listeners
  /\ IF ~launched /\ gameState = "playing"
     THEN LaunchFromInput(keyboardAngle, keyboardPower)
     ELSE UNCHANGED <<gameVars, launchedAim>>
  /\ UNCHANGED <<isDragging, dragAngle, dragPower, keyboardVars, pointerDown, otherVars>>

\* handleKeyDown for an aim key: the key is recorded, then startKeyboardAiming().
HandleKeyDownAim ==
  /\ "keydown" \in listeners
  /\ \E key \in AimKeys :
       /\ Cardinality(keysPressed \cup {key}) <= MaxKeysHeld
       /\ keysPressed' = keysPressed \cup {key}
  /\ keyboardAimInterval' =
       IF keyboardAimInterval \/ launched \/ gameState # "playing"
       THEN keyboardAimInterval ELSE TRUE
  /\ UNCHANGED <<gameVars, isDragging, dragAngle, dragPower, keyboardAngle, keyboardPower,
                 launchedAim, pointerDown, otherVars>>

\* handleKeyUp: the key is forgotten; stopKeyboardAiming() once no aim key is held.
HandleKeyUp ==
  /\ "keyup" \in listeners
  /\ \E key \in keysPressed :
       /\ keysPressed' = keysPressed \ {key}
       /\ keyboardAimInterval' =
            IF (keysPressed \ {key}) \cap AimKeys = {} THEN FALSE ELSE keyboardAimInterval
  /\ UNCHANGED <<gameVars, isDragging, dragAngle, dragPower, keyboardAngle, keyboardPower,
                 launchedAim, pointerDown, otherVars>>

\* The angle and power updateKeyboardAim computes from a and p with keys held.
KeyboardAngleAfter(a, keys) ==
  LET up == IF "arrowup" \in keys THEN Min(MAX_ANGLE, a + 1) ELSE a
  IN  IF "arrowdown" \in keys THEN Max(MIN_ANGLE, up - 1) ELSE up
KeyboardPowerAfter(p, keys) ==
  LET right == IF "arrowright" \in keys THEN Min(MAX_POWER, p + 1) ELSE p
  IN  IF "arrowleft" \in keys THEN Max(MIN_POWER, right - 1) ELSE right

\* updateKeyboardAim(): a tick of the keyboard's aim interval.
UpdateKeyboardAim ==
  /\ keyboardAimInterval
  /\ keyboardAngle' = KeyboardAngleAfter(keyboardAngle, keysPressed)
  /\ keyboardPower' = KeyboardPowerAfter(keyboardPower, keysPressed)
  /\ keyboardAngle' \in AnglesTried \/ keyboardAngle' = keyboardAngle
  /\ keyboardPower' \in PowersTried \/ keyboardPower' = keyboardPower
  /\ IF keysPressed \cap AimKeys # {}
     THEN /\ dragAngle' = keyboardAngle'
          /\ dragPower' = keyboardPower'
          /\ isDragging' = TRUE
          /\ UpdatePredictedPathCall(keyboardAngle', keyboardPower')
     ELSE UNCHANGED <<gameVars, dragAngle, dragPower, isDragging>>
  /\ UNCHANGED <<keysPressed, keyboardAimInterval, launchedAim, pointerDown, otherVars>>

\* The game in 'playing' on the first level of SingleFile, as initialize()
\* leaves it, with the keyboard's aim where earlier aiming has left it: at one
\* of aims.
AimingInit(aims) ==
  LET repo == LoadLevels([ok |-> TRUE, data |-> SingleFile])
      levelData == GetLevel(STARTING_LEVEL, repo.levels, repo.proceduralConfig)
      ts == [i \in 1..Len(levelData.targets) |->
               Body("target", i, levelData.targets[i].x, levelData.targets[i].y)]
  IN  /\ gameState = "playing"
      /\ level = STARTING_LEVEL
      /\ score = STARTING_SCORE
      /\ highScore \in StoredHighScores
      /\ triesLeft = Len(ts)
      /\ targets = ts
      /\ obstacles = <<>>
      /\ world = Boundaries \cup SeqRange(ts)
      /\ projectile = Null
      /\ launched = FALSE
      /\ atRest = FALSE
      /\ projectileMonitorInterval = 0
      /\ activeIntervals = {}
      /\ timeouts = <<>>
      /\ runnerRunning = TRUE
      /\ levels = repo.levels
      /\ proceduralConfig = repo.proceduralConfig
      /\ listeners = SetupEventListeners
      /\ loaded = repo.loaded
      /\ loadError = repo.loadError
      /\ \E aim \in aims :
           /\ keyboardAngle = aim.angle
           /\ keyboardPower = aim.power
           /\ dragAngle = aim.angle
           /\ dragPower = aim.power
           /\ isDragging = (aim.angle # DEFAULT_ANGLE)
           /\ predictedPath = ComputePredictedPath(aim.angle, aim.power)
      /\ keysPressed = {}
      /\ keyboardAimInterval = FALSE
      /\ launchedAim = NoAim
      /\ pointerDown = FALSE
      /\ generated = <<>>
      /\ ParticleInit
      /\ AudioInit
      /\ StorageInit
      /\ ClockInit

InputNext ==
  \/ HandleMouseDown
  \/ HandleMouseMove
  \/ HandleMouseUp
  \/ HandleTouchStart
  \/ HandleTouchMove
  \/ HandleTouchEnd
  \/ HandleKeyDownSpace
  \/ HandleKeyDownAim
  \/ HandleKeyUp
  \/ UpdateKeyboardAim

\* The input handler from the aim the constructors set.
InputSpec ==
  AimingInit({[angle |-> DEFAULT_ANGLE, power |-> DEFAULT_POWER]}) /\ [][InputNext]_vars

\* The input handler from the default aim and from the corners of the range.
AimSpec == AimingInit(KeyboardAimsAtStart) /\ [][InputNext]_vars

\* ------------------------------------------------------ the particle system
\* The sequence s reversed.
Reverse(s) == [i \in 1..Len(s) |-> s[Len(s) + 1 - i]]

\* returnToPool() called for each particle of ids in turn: a particle is
\* pushed while the pool is below maxPoolSize and dropped otherwise.
ReturnToPool(pl, ids) ==
  pl \o SubSeq(ids, 1, Min(Len(ids), maxPoolSize - Len(pl)))

\* The particles count calls of getParticle() take from the pool pl: the top
\* of the pool first.
TakenFromTop(pl, count) == [i \in 1..Min(count, Len(pl)) |-> pl[Len(pl) + 1 - i]]

\* createExplosion(): COUNT_PER_EXPLOSION calls of getParticle(), each
\* popping the pool, or constructing a Particle when the pool is empty.
CreateExplosion ==
  /\ Len(particles) + COUNT_PER_EXPLOSION <= MaxActive
  /\ LET reused == TakenFromTop(pool, COUNT_PER_EXPLOSION)
         new == [i \in 1..(COUNT_PER_EXPLOSION - Len(reused)) |-> created + i]
     IN  /\ particles' = particles \o
                           [i \in 1..COUNT_PER_EXPLOSION |->
                              [id |-> (reused \o new)[i], lifetime |-> LIFETIME]]
         /\ pool' = SubSeq(pool, 1, Len(pool) - Len(reused))
         /\ created' = created + Len(new)
  /\ UNCHANGED <<gameVars, clockVars, inputVars, generated, audioVars, storageVars>>

\* update(): every particle ages by one frame; from the last to the first,
\* those whose lifetime is over go back to the pool and leave the list.
ParticlesUpdate ==
  /\ particles # <<>>
  /\ LET aged == [i \in 1..Len(particles) |->
                   [particles[i] EXCEPT !.lifetime = @ - 1]]
         over(p) == p.lifetime <= 0
         alive(p) == p.lifetime > 0
         expired == SelectSeq(aged, over)
     IN  /\ pool' = ReturnToPool(pool, Reverse([i \in 1..Len(expired) |-> expired[i].id]))
         /\ particles' = SelectSeq(aged, alive)
  /\ UNCHANGED <<gameVars, clockVars, inputVars, generated, created, audioVars, storageVars>>

\* clear(): every particle goes back to the pool, from the first to the last.
ParticlesClear ==
  /\ particles # <<>>
  /\ pool' = ReturnToPool(pool, [i \in 1..Len(particles) |-> particles[i].id])
  /\ particles' = <<>>
  /\ UNCHANGED <<gameVars, clockVars, inputVars, generated, created, audioVars, storageVars>>

ParticleNext ==
  \/ CreateExplosion
  \/ ParticlesUpdate
  \/ ParticlesClear

ParticleSpec == Init /\ [][ParticleNext]_vars

\* ------------------------------------------------ audio and storage hosts
\* CONFIG.AUDIO: the frequency of each sound effect.
AUDIO == [launch |-> 220, hit |-> 440, level_complete |-> 600, win |-> 880]

\* window.AudioContext on the host: a working constructor, none, or one that throws.
AudioCapabilities == {"supported", "missing", "throws"}

\* The fields of the audio manager.
AudioState ==
  [audioContext |-> audioContext, enabled |-> enabled, initialized |-> initialized,
   initializationError |-> initializationError]

\* initialize() on the manager a: the manager it leaves and what it returns.
\* A missing constructor and a constructor that throws (caught) both set
\* initializationError.
InitializeOn(a, capability) ==
  IF a.initialized \/ a.initializationError
  THEN [a |-> a, returned |-> a.initialized]
  ELSE IF capability = "supported"
       THEN [a |-> [a EXCEPT !.audioContext = "running", !.initialized = TRUE],
             returned |-> TRUE]
       ELSE [a |-> [a EXCEPT !.initializationError = TRUE], returned |-> FALSE]

\* playSound() without its try / catch around the oscillator.
PlaySoundOnWithoutCatch(a, capability, frequency, fails) ==
  IF ~a.enabled \/ a.initializationError
  THEN [a |-> a, frequency |-> 0, raised |-> FALSE]
  ELSE LET i == IF a.initialized THEN [a |-> a, returned |-> TRUE]
                ELSE InitializeOn(a, capability)
       IN  IF ~i.returned THEN [a |-> i.a, frequency |-> 0, raised |-> FALSE]
           ELSE IF fails THEN [a |-> i.a, frequency |-> 0, raised |-> TRUE]
           ELSE [a |-> i.a, frequency |-> frequency, raised |-> FALSE]

\* playSound(frequency, ...) on the manager a: the manager it leaves, the tone
\* it starts (0 for none) and whether it raises.  fails: creating or starting
\* the oscillator throws (caught).
PlaySoundOn(a, capability, frequency, fails) ==
  IF ~a.enabled \/ a.initializationError
  THEN [a |-> a, frequency |-> 0, raised |-> FALSE]
  ELSE LET i == IF a.initialized THEN [a |-> a, returned |-> TRUE]
                ELSE InitializeOn(a, capability)
       IN  IF ~i.returned THEN [a |-> i.a, frequency |-> 0, raised |-> FALSE]
           ELSE IF fails THEN [a |-> i.a, frequency |-> 0, raised |-> FALSE]
           ELSE [a |-> i.a, frequency |-> frequency, raised |-> FALSE]

\* playSoundEffect(soundName): the effect is looked up in CONFIG.AUDIO.
PlaySoundEffectOn(a, capability, soundName, fails) ==
  IF soundName \notin DOMAIN AUDIO
  THEN [a |-> a, frequency |-> 0, raised |-> FALSE]
  ELSE PlaySoundOn(a, capability, AUDIO[soundName], fails)

\* audioManager.playSoundEffect(soundName), as a handler of the game calls it.
PlaySoundEffect(soundName, fails) ==
  LET r == PlaySoundEffectOn(AudioState, audioCapability, soundName, fails)
  IN  /\ audioContext' = r.a.audioContext
      /\ enabled' = r.a.enabled
      /\ initialized' = r.a.initialized
      /\ initializationError' = r.a.initializationError
      /\ played' = [name |-> soundName, frequency |-> r.frequency, raised |-> r.raised,
                    enabled |-> enabled]
      /\ UNCHANGED audioCapability

\* The decimal digits, and Number.prototype.toString for a natural number.
Digits == <<"0", "1", "2", "3", "4", "5", "6", "7", "8", "9">>
RECURSIVE NumberToString(_)
NumberToString(n) ==
  IF n < 10 THEN <<Digits[n + 1]>> ELSE NumberToString(n \div 10) \o <<Digits[(n % 10) + 1]>>

DigitValue(c) == (CHOOSE d \in 1..10 : Digits[d] = c) - 1

\* parseInt(s, 10) for a string without sign or leading blanks: the value of
\* its longest prefix of digits, NaN when that prefix is empty.
RECURSIVE DigitPrefix(_)
DigitPrefix(s) ==
  IF s = <<>> \/ Head(s) \notin SeqRange(Digits) THEN <<>>
  ELSE <<Head(s)>> \o DigitPrefix(Tail(s))
RECURSIVE ValueOf(_)
ValueOf(ds) ==
  IF ds = <<>> THEN 0
  ELSE ValueOf(SubSeq(ds, 1, Len(ds) - 1)) * 10 + DigitValue(ds[Len(ds)])
ParseInt(s) ==
  LET ds == DigitPrefix(s)
  IN  [nan |-> ds = <<>>, value |-> ValueOf(ds)]

\* What localStorage holds under HIGH_SCORE_KEY when the game starts: nothing,
\* a text that is no number, a number, a number followed by text.
StoredItems == {NoItem, <<"a", "b", "c">>, <<"4">>, <<"2", "x">>}

\* loadHighScore() without the "|| 0" and the catch: NaN and the exception
\* surface as -1.
LoadHighScoreUnguarded(item, fails) ==
  IF fails \/ ParseInt(item).nan THEN -1 ELSE ParseInt(item).value

\* loadHighScore(): parseInt(stored, 10) || 0, and 0 when getItem throws.
\* getItem returns null for a missing item, and parseInt(null) is NaN.
LoadHighScore(item, fails) ==
  IF fails THEN 0
  ELSE IF ParseInt(item).nan THEN 0
  ELSE ParseInt(item).value

\* saveHighScore() without its try / catch.
SaveHighScoreOnWithoutCatch(item, fails, value) ==
  IF fails THEN [item |-> item, raised |-> TRUE]
  ELSE [item |-> NumberToString(value), raised |-> FALSE]

\* saveHighScore() with this.highScore = value: the item stored afterwards,
\* and whether the call raises (setItem's exception is caught).
SaveHighScoreOn(item, fails, value) ==
  IF fails THEN [item |-> item, raised |-> FALSE]
  ELSE [item |-> NumberToString(value), raised |-> FALSE]

\* launch() left at an exception of playSoundEffect: monitorProjectile() is
\* not reached.
LaunchCutShort(angleDegrees, power) ==
  /\ launched' = TRUE
  /\ triesLeft' = triesLeft - 1
  /\ projectile' = NewProjectile
  /\ world' = world \cup {NewProjectile}
  /\ atRest' = (power * VELOCITY_SCALE < MIN_VELOCITY_THRESHOLD)
  /\ predictedPath' = <<>>
  /\ UNCHANGED <<gameState, level, score, highScore, targets, obstacles, timeouts,
                 runnerRunning, levels, proceduralConfig, listeners, loaded, loadError,
                 activeIntervals, projectileMonitorInterval>>

\* handleLevelComplete() and handleGameWin() left at an exception of
\* saveHighScore or playSoundEffect: no callback is scheduled.
HandleLevelCompleteCutShort ==
  /\ gameState' = "levelComplete"
  /\ score' = score + POINTS_PER_LEVEL
  /\ highScore' = IF score' > highScore THEN score' ELSE highScore
  /\ UNCHANGED timeouts
HandleGameWinCutShort ==
  /\ gameState' = "gameWon"
  /\ UNCHANGED <<score, highScore, timeouts>>

\* launch(angle, power) with the sound it plays.
HostLaunch ==
  /\ "keydown" \in listeners
  /\ \E aim \in Aims :
       IF ~LaunchAccepted
       THEN UNCHANGED <<gameVars, audioVars>>
       ELSE \E fails \in BOOLEAN :
              /\ PlaySoundEffect("launch", fails)
              /\ IF played'.raised
                 THEN LaunchCutShort(aim.angle, aim.power)
                 ELSE Launch(aim.angle, aim.power)
  /\ UNCHANGED <<inputVars, clockVars, generated, particleVars, storageVars>>

\* One step of the engine under the runner: the projectile moves and may
\* start touching a target; handleCollision() then plays 'hit', removes the
\* target and scores.  (The explosion it creates is left to ParticleSpec.)
HostPhysicsStep ==
  /\ runnerRunning
  /\ BodiesLabelled(world, "projectile") # {}
  /\ atRest' \in BOOLEAN
  /\ \/ UNCHANGED <<world, score, audioVars>>
     \/ \E target \in GetTargetsRemaining(world), fails \in BOOLEAN :
          /\ PlaySoundEffect("hit", fails)
          /\ IF played'.raised
             THEN UNCHANGED <<world, score>>
             ELSE HandleCollision({target})
  /\ UNCHANGED <<gameState, level, highScore, triesLeft, targets, obstacles, projectile,
                 launched, projectileMonitorInterval, activeIntervals, timeouts,
                 runnerRunning, predictedPath, levels, proceduralConfig, listeners, loaded,
                 loadError, inputVars, clockVars, generated, particleVars, storageVars>>

\* checkEndConditions() with the high score it saves and the sounds it plays.
HostCheckEndConditions(w) ==
  LET outcome == Outcome(w, triesLeft, level, levels, proceduralConfig)
      newScore == score + POINTS_PER_LEVEL
      s == SaveHighScoreOn(localStorage, storageFails, newScore)
  IN  CASE outcome = "LevelComplete" ->
             IF newScore > highScore /\ s.raised
             THEN /\ HandleLevelCompleteCutShort
                  /\ UNCHANGED <<audioVars, storageVars>>
             ELSE /\ localStorage' = IF newScore > highScore THEN s.item ELSE localStorage
                  /\ UNCHANGED storageFails
                  /\ \E fails \in BOOLEAN :
                       /\ PlaySoundEffect("level_complete", fails)
                       /\ IF played'.raised
                          THEN HandleLevelCompleteCutShort
                          ELSE HandleLevelComplete
        [] outcome = "GameWon" ->
             /\ UNCHANGED storageVars
             /\ \E fails \in BOOLEAN :
                  /\ PlaySoundEffect("win", fails)
                  /\ IF played'.raised THEN HandleGameWinCutShort ELSE HandleGameWin
        [] outcome = "OutOfTries" ->
             HandleLevelFailed /\ UNCHANGED <<audioVars, storageVars>>
        [] OTHER -> UNCHANGED <<gameState, score, highScore, timeouts, audioVars, storageVars>>

\* A tick of a settlement poll, with what checkEndConditions() saves and plays.
HostPollTick(i) ==
  /\ i \in activeIntervals
  /\ IF projectile = Null
     THEN /\ activeIntervals' = activeIntervals \ {projectileMonitorInterval}
          /\ UNCHANGED <<gameState, level, score, highScore, triesLeft, targets, obstacles,
                         world, projectile, launched, atRest, projectileMonitorInterval,
                         timeouts, runnerRunning, predictedPath, levels,
                         proceduralConfig, listeners, loaded, loadError, auxVars>>
     ELSE IF atRest
     THEN /\ world' = world \ {projectile}
          /\ projectile' = Null
          /\ launched' = FALSE
          /\ atRest' = FALSE
          /\ activeIntervals' = activeIntervals \ {projectileMonitorInterval}
          /\ HostCheckEndConditions(world')
          /\ UNCHANGED <<level, triesLeft, targets, obstacles, projectileMonitorInterval,
                         runnerRunning, predictedPath, levels, proceduralConfig, listeners,
                         loaded, loadError, inputVars, clockVars, generated, particleVars>>
     ELSE UNCHANGED vars

\* toggleSound(), by the key M or the sound button.
ToggleSound ==
  /\ "keydown" \in listeners \/ "soundToggleBtn.click" \in listeners
  /\ enabled' = ~enabled
  /\ UNCHANGED <<gameVars, clockVars, inputVars, generated, particleVars, storageVars, audioContext,
                 initialized, initializationError, audioCapability, played>>

\* The host's audio capability changes (a constructor that threw stops
\* throwing, or the other way round).
CapabilityChanges ==
  /\ audioCapability' \in AudioCapabilities \ {audioCapability}
  /\ UNCHANGED <<gameVars, clockVars, inputVars, generated, particleVars, storageVars, audioContext,
                 enabled, initialized, initializationError, played>>

\* The game in 'playing' on the first level of a data file, as the
\* constructor and initialize() leave it on a host with some audio
\* capability, some stored item and a storage that throws or not.
HostInit ==
  \E file \in {SingleFile, BrokenFile} :
    LET repo == LoadLevels([ok |-> TRUE, data |-> file])
        levelData == GetLevel(STARTING_LEVEL, repo.levels, repo.proceduralConfig)
        ts == [i \in 1..Len(levelData.targets) |->
                 Body("target", i, levelData.targets[i].x, levelData.targets[i].y)]
    IN  /\ gameState = "playing"
        /\ level = STARTING_LEVEL
        /\ score = STARTING_SCORE
        /\ localStorage \in StoredItems
        /\ storageFails \in BOOLEAN
        /\ highScore = LoadHighScore(localStorage, storageFails)
        /\ triesLeft = Len(ts)
        /\ targets = ts
        /\ obstacles = <<>>
        /\ world = Boundaries \cup SeqRange(ts)
        /\ projectile = Null
        /\ launched = FALSE
        /\ atRest = FALSE
        /\ projectileMonitorInterval = 0
        /\ activeIntervals = {}
        /\ timeouts = <<>>
        /\ runnerRunning = TRUE
        /\ predictedPath = ComputePredictedPath(DEFAULT_ANGLE, DEFAULT_POWER)
        /\ levels = repo.levels
        /\ proceduralConfig = repo.proceduralConfig
        /\ listeners = SetupEventListeners
        /\ loaded = repo.loaded
        /\ loadError = repo.loadError
        /\ InputInit
        /\ generated = <<>>
        /\ ParticleInit
        /\ audioContext = "null"
        /\ enabled = TRUE
        /\ initialized = FALSE
        /\ initializationError = FALSE
        /\ audioCapability \in AudioCapabilities
        /\ played = NothingPlayed
        /\ ClockInit

HostNext ==
  \/ HostLaunch
  \/ HostPhysicsStep
  \/ \E i \in 1..MaxIntervals : HostPollTick(i)
  \/ ToggleSound
  \/ CapabilityChanges

HostSpec == HostInit /\ [][HostNext]_vars

TypeOK ==
  /\ gameState \in {"loading", "playing", "paused", "levelComplete", "gameWon", "levelFailed"}
  /\ level \in 1..MaxLevel
  /\ score \in 0..MaxScore
  /\ highScore \in 0..MaxScore
  /\ launched \in BOOLEAN
  /\ activeIntervals \subseteq 1..MaxIntervals
  /\ Len(timeouts) <= MaxTimeouts
  /\ listeners \subseteq SetupEventListeners

\* ---------------------------------------------- the throttle of the preview
\* The amounts of time that pass between two calls: a millisecond, one short
\* of the throttle delay, the delay itself.
ClockSteps == {1, THROTTLE_DELAY - 1, THROTTLE_DELAY}

\* updatePredictedPath(angle, power) that also skips the call made exactly
\* THROTTLE_DELAY after the last performed update.
UpdatePredictedPathAtInclusive(angleDegrees, power) ==
  IF now - lastPathUpdate <= THROTTLE_DELAY
  THEN UNCHANGED <<lastPathUpdate, predictedPath>>
  ELSE /\ lastPathUpdate' = now
       /\ predictedPath' = ComputePredictedPath(angleDegrees, power)

\* updatePredictedPath(angle, power) that stamps the skipped calls too.
UpdatePredictedPathAtStamping(angleDegrees, power) ==
  /\ lastPathUpdate' = now
  /\ IF now - lastPathUpdate < THROTTLE_DELAY
     THEN UNCHANGED predictedPath
     ELSE predictedPath' = ComputePredictedPath(angleDegrees, power)

\* updatePredictedPath(angle, power), with the clock it reads.
UpdatePredictedPathAt(angleDegrees, power) ==
  IF now - lastPathUpdate < THROTTLE_DELAY
  THEN UNCHANGED <<lastPathUpdate, predictedPath>>
  ELSE /\ lastPathUpdate' = now
       /\ predictedPath' = ComputePredictedPath(angleDegrees, power)

\* A call of updatePredictedPath(angle, power) on the game.
ThrottledCall ==
  \E aim \in Aims :
    /\ UpdatePredictedPathAt(aim.angle, aim.power)
    /\ pathCall' = [angle |-> aim.angle, power |-> aim.power, at |-> now]
    /\ UNCHANGED <<gameState, level, score, highScore, triesLeft, targets, obstacles, world,
                   projectile, launched, atRest, projectileMonitorInterval, activeIntervals,
                   timeouts, runnerRunning, levels, proceduralConfig, listeners, loaded,
                   loadError, now, inputVars, generated, particleVars, audioVars, storageVars>>

\* Time passes.
ClockAdvances ==
  \E d \in ClockSteps :
    /\ now + d <= ClockStart + MaxElapsed
    /\ now' = now + d
    /\ UNCHANGED <<gameVars, lastPathUpdate, pathCall, inputVars, generated, particleVars,
                   audioVars, storageVars>>

ThrottleNext ==
  \/ ThrottledCall
  \/ ClockAdvances

ThrottleSpec == Init /\ [][ThrottleNext]_vars

\* ------------------------------------------------------------- properties
\* Some call of launch() makes this step.
LaunchStep == \E aim \in Aims : Launch(aim.angle, aim.power)

\* A poll tick that finds the projectile settled makes this step.
SettleStep ==
  /\ projectile # Null
  /\ atRest
  /\ \E i \in activeIntervals : PollTick(i)

\* C1: launch() invoked while a projectile is in flight, or with no tries
\* left, or outside 'playing', changes nothing: tries, launched, the
\* projectile handle, the world, the predicted path, the score and the active
\* settlement polls stay as they were.
C1_RejectedLaunchIsNoOp ==
  [][ (LaunchStep /\ (launched \/ triesLeft <= 0 \/ gameState # "playing"))
      => UNCHANGED <<triesLeft, launched, projectile, world, predictedPath, score,
                     activeIntervals, projectileMonitorInterval>> ]_vars

\* A state in which a second launch is attempted in vain: a projectile is in
\* flight in 'playing' with tries left.
C1_Witness ==
  /\ launched /\ projectile \in world
  /\ gameState = "playing"
  /\ triesLeft > 0

\* C2: the live world never holds more than one body labelled 'projectile'.
C2_AtMostOneProjectile == Cardinality(BodiesLabelled(world, "projectile")) <= 1

\* A projectile is in the world while a delayed rebuild is pending and an
\* interval of an earlier projectile is still active.
C2_Witness ==
  /\ Cardinality(BodiesLabelled(world, "projectile")) = 1
  /\ timeouts # <<>>
  /\ Cardinality(activeIntervals) = 2

\* C3: an accepted launch takes one try, sets launched, adds exactly one
\* projectile body at the launcher origin to the world, empties the predicted
\* path and starts a settlement poll; level, score and the targets in the
\* world are untouched.
C3_AcceptedLaunch ==
  [][ (LaunchStep /\ ~launched /\ triesLeft > 0 /\ gameState = "playing")
      => /\ triesLeft' = triesLeft - 1
         /\ launched'
         /\ world \subseteq world'
         /\ world' \ world = {projectile'}
         /\ projectile'.label = "projectile"
         /\ projectile'.x = LAUNCHER_X /\ projectile'.y = LAUNCHER_Y
         /\ predictedPath' = <<>>
         /\ projectileMonitorInterval' \notin activeIntervals
         /\ activeIntervals' = activeIntervals \cup {projectileMonitorInterval'}
         /\ UNCHANGED <<level, score, gameState>>
         /\ GetTargetsRemaining(world') = GetTargetsRemaining(world) ]_vars

\* The state an accepted launch leaves: one try gone, the projectile in the
\* world, its poll active, the path empty.
C3_Witness ==
  /\ launched
  /\ projectile \in world
  /\ triesLeft = Len(targets) - 1
  /\ predictedPath = <<>>
  /\ projectileMonitorInterval \in activeIntervals
  /\ GetTargetsRemaining(world) = SeqRange(targets)
\* Some call of buildLevel() makes this step.
BuildStep ==
  \/ Initialize
  \/ Reset
  \/ \E k \in 1..Len(timeouts) : AdvanceTimeout(k) \/ RetryTimeout(k) \/ WinTimeout(k)

\* The layout the repository returns for level n.
LayoutOf(n) == GetLevel(n, levels, proceduralConfig)

C5_CompletionBeforeOutOfTries ==
  [][ (SettleStep /\ GetTargetsRemaining(world) = {} /\ triesLeft = 0)
      => /\ gameState' \in {"levelComplete", "gameWon"}
         /\ Len(timeouts') = Len(timeouts) + 1
         /\ timeouts'[Len(timeouts')].kind \in {"advance", "win"} ]_vars

\* The last try cleared the last target: the level is complete with no tries
\* left and the advance is pending.
C5_Witness ==
  /\ gameState = "levelComplete"
  /\ triesLeft = 0
  /\ GetTargetsRemaining(world) = {}
  /\ ~launched /\ projectile = Null
  /\ Len(timeouts) = 1 /\ timeouts[1].kind = "advance"

\* C6: an evaluation that finds no targets remaining ends in LevelComplete if
\* and only if the level number is below the number of hand-authored levels or
\* procedural generation is enabled, and in GameWon otherwise; with procedural
\* generation enabled the game is never won.
C6_LevelCompleteOrGameWon ==
  [][ /\ (SettleStep /\ GetTargetsRemaining(world) = {})
         => IF level < Len(levels) \/ proceduralConfig.enabled
            THEN gameState' = "levelComplete" /\ timeouts'[Len(timeouts')].kind = "advance"
            ELSE gameState' = "gameWon" /\ timeouts'[Len(timeouts')].kind = "win"
      /\ proceduralConfig'.enabled
         => gameState' # "gameWon" /\ \A k \in 1..Len(timeouts') : timeouts'[k].kind # "win" ]_vars

\* With procedural generation enabled, the last hand-authored level has been
\* cleared and the outcome is LevelComplete.
C6_Witness ==
  /\ proceduralConfig.enabled
  /\ level = Len(levels)
  /\ gameState = "levelComplete"
  /\ GetTargetsRemaining(world) = {}

\* The last hand-authored level was cleared without procedural generation:
\* the game is won.
C6_WitnessWon ==
  /\ ~proceduralConfig.enabled
  /\ level = Len(levels)
  /\ gameState = "gameWon"
\* Some pending callback of the given kind.
Pending(kind) == \E k \in 1..Len(timeouts) : timeouts[k].kind = kind

\* C7: on LevelComplete the score grows by the level bonus and the high score
\* follows it; gameState is 'levelComplete' for the whole display delay, with
\* launches rejected; when the delay expires the level number is one above the
\* completed level, that level is built and gameState is 'playing' again.
C7_LevelCompleteAdvances ==
  [][ /\ (SettleStep /\ GetTargetsRemaining(world) = {}
            /\ (level < Len(levels) \/ proceduralConfig.enabled))
         => /\ score' = score + POINTS_PER_LEVEL
            /\ highScore' = IF score' > highScore THEN score' ELSE highScore
            /\ gameState' = "levelComplete"
      /\ Pending("advance")' => gameState' = "levelComplete"
      /\ (Pending("advance") /\ LaunchStep) => UNCHANGED <<triesLeft, launched, projectile, world>>
      /\ \A k \in 1..Len(timeouts) :
           AdvanceTimeout(k)
           => /\ level' = timeouts[k].lvl + 1
              /\ gameState' = "playing"
              /\ ValidateLevel(GetLevel(level', levels, proceduralConfig))
                 => triesLeft' = Len(GetLevel(level', levels, proceduralConfig).targets) ]_vars

C9_OutOfTriesRetriesSameLevel ==
  [][ /\ (gameState' = "levelFailed" /\ gameState # "levelFailed")
         => /\ SettleStep
            /\ GetTargetsRemaining(world') # {}
            /\ triesLeft <= 0
            /\ ~launched' /\ projectile' = Null
            /\ UNCHANGED <<level, score>>
      /\ \A k \in 1..Len(timeouts) :
           RetryTimeout(k)
           => /\ level' = timeouts[k].lvl
              /\ score' = score
              /\ triesLeft' = Len(GetLevel(timeouts[k].lvl, levels, proceduralConfig).targets)
              /\ Cardinality(GetTargetsRemaining(world')) = triesLeft' ]_vars

\* C10: a settlement evaluation that finds targets remaining and tries left
\* (StillPlaying) changes nothing: gameState, level, score, high score, tries
\* and the targets in the world stay, and no delayed rebuild is scheduled.
C10_StillPlayingNoTransition ==
  [][ (SettleStep /\ GetTargetsRemaining(world) # {} /\ triesLeft > 0)
      => /\ UNCHANGED <<gameState, level, score, highScore, triesLeft, timeouts>>
         /\ GetTargetsRemaining(world') = GetTargetsRemaining(world) ]_vars

\* A shot has settled with targets and tries left: the game is still
\* 'playing', the poll of that shot is cancelled and nothing is scheduled.
C10_Witness ==
  /\ gameState = "playing"
  /\ ~launched /\ projectile = Null
  /\ GetTargetsRemaining(world) # {}
  /\ triesLeft > 0 /\ triesLeft < Len(targets)
  /\ timeouts = <<>>
  /\ projectileMonitorInterval # 0
  /\ activeIntervals = {}

\* C11: the high score is the largest value the score has ever held (or the
\* stored value, if larger): in every state it is at least the current score,
\* also for points gained by hits on a level that is then failed, won as the
\* last level, or abandoned by a reset.
C11_HighScoreIsMaxScore == highScore >= score

\* C12: the high score never decreases, whatever step is taken: a hit, a
\* settlement, a level completion, a failure, a win, a reset, a pause, a resume.
C12_HighScoreNeverDecreases == [][highScore' >= highScore]_vars

\* A level has been failed in a game started over after an earlier game had
\* earned a high score: the high score still stands above the score.
C12_Witness ==
  /\ gameState = "levelFailed"
  /\ highScore >= POINTS_PER_LEVEL
  /\ score < highScore

\* C13: settlement terminates.  A projectile in flight while gameState is
\* 'playing' is never stuck: either the poll can settle it now, or the runner
\* is stepping its physics (which, by assumption, brings it to rest); poll
\* ticks alone never change a projectile that is not at rest.
C13_InFlightCanSettle ==
  (launched /\ projectile # Null /\ gameState = "playing") => (atRest \/ runnerRunning)

\* C14: a poll tick that observes the projectile at rest removes it from the
\* world, clears the handle and launched, and cancels its own poll before the
\* outcome is evaluated.
C14_SettlementCancelsItsPoll ==
  [][ \A i \in activeIntervals :
        (projectile # Null /\ atRest /\ PollTick(i))
        => /\ projectile \notin world'
           /\ projectile' = Null
           /\ ~launched'
           /\ i \notin activeIntervals' ]_vars

\* The targets a step removes from the world.
TargetsRemoved == GetTargetsRemaining(world) \ GetTargetsRemaining(world')

\* C15: a reported collision removes exactly the targets hit from the world
\* (and so from the remaining-target set) and adds the per-target points for
\* each; a target scored has left the world and only a build brings targets
\* back; the score changes only by the points of the targets hit, by the level
\* bonus at a level completion, or to 0.
C15_HitRemovesTargetAndScores ==
  [][ /\ (PhysicsStep /\ world' # world)
         => /\ TargetsRemoved # {}
            /\ world' = world \ TargetsRemoved
            /\ score' = score + Cardinality(TargetsRemoved) * POINTS_PER_TARGET
      /\ GetTargetsRemaining(world') \subseteq GetTargetsRemaining(world) \/ BuildStep
      /\ score' # score
         => \/ PhysicsStep /\ TargetsRemoved # {}
                /\ score' = score + Cardinality(TargetsRemoved) * POINTS_PER_TARGET
            \/ SettleStep /\ gameState' = "levelComplete"
                /\ score' = score + POINTS_PER_LEVEL
            \/ (Reset \/ \E k \in 1..Len(timeouts) : WinTimeout(k))
                /\ score' = STARTING_SCORE ]_vars

\* The first shot has hit one target of a level with several: that target is
\* gone from the world and its point is scored, the projectile still flies.
C15_Witness ==
  /\ launched /\ projectile \in world
  /\ score = POINTS_PER_TARGET
  /\ Len(targets) >= 2
  /\ Cardinality(GetTargetsRemaining(world)) = Len(targets) - 1

\* C16: targets are removed and scored only while a projectile is in flight,
\* by a physics step that leaves it in flight; the settlement removes the
\* projectile and no target, so the outcome is decided on the set of targets
\* the shot left, and nothing is hit once the projectile is gone.
C16_CollisionsPrecedeSettlement ==
  [][ /\ (TargetsRemoved # {} /\ ~BuildStep)
         => /\ PhysicsStep
            /\ launched /\ projectile # Null /\ projectile \in world
            /\ launched' /\ projectile' = projectile /\ projectile \in world'
      /\ SettleStep
         => /\ GetTargetsRemaining(world') = GetTargetsRemaining(world)
            /\ BodiesLabelled(world', "projectile") = {}
      /\ (~launched /\ ~BuildStep) => UNCHANGED score \/ SettleStep ]_vars

\* A shot that hit one target has settled with targets and tries left: the
\* projectile is gone and the game goes on.
C16_Witness ==
  /\ ~launched /\ projectile = Null
  /\ BodiesLabelled(world, "projectile") = {}
  /\ gameState = "playing"
  /\ score = POINTS_PER_TARGET
  /\ Cardinality(GetTargetsRemaining(world)) = Len(targets) - 1
  /\ triesLeft = Len(targets) - 1
  /\ triesLeft > 0

\* C17: at most one settlement poll is active at any time.
C17_AtMostOnePoll == Cardinality(activeIntervals) <= 1

\* C18: dispose() leaves no settlement poll active, the runner stopped and no
\* input listener attached.
C18_DisposeStopsEverything ==
  [][ Dispose => /\ activeIntervals' = {}
                 /\ ~runnerRunning'
                 /\ listeners' = {} ]_vars

\* C19: a build for which the repository returns no layout, or one that fails
\* validation, creates no targets and no obstacles and does not start the
\* round: gameState is not 'playing' after it, whichever path asked for it.
C19_InvalidLayoutBlocksRound ==
  [][ (BuildStep /\ ~ValidateLevel(GetLevel(level', levels', proceduralConfig')))
      => /\ GetTargetsRemaining(world') = {}
         /\ BodiesLabelled(world', "obstacle") = {}
         /\ gameState' # "playing"
         /\ ~LaunchAccepted' ]_vars

\* C20: after a failed fetch loadLevels has returned false, recorded the
\* error and marked the repository loaded; the repository holds the 3 built-in
\* levels, the first with the targets (600,540), (650,480), (700,420), and no
\* procedural generation; every level validates and is built with its targets,
\* and clearing a level completes it below level 3 and wins the game at level 3.
C20_FetchFailureFallsBack ==
  /\ ~LoadLevels(FetchFailed).returned
  /\ loadError # NoError
     => /\ loaded
        /\ GetLevelCount(levels) = 3
        /\ levels[1].targets = <<Target(600, 540), Target(650, 480), Target(700, 420)>>
        /\ ~proceduralConfig.enabled
        /\ \A n \in 1..GetLevelCount(levels) :
             /\ ValidateLevel(LayoutOf(n))
             /\ Outcome(Boundaries, 0, n, levels, proceduralConfig)
                  = IF n < 3 THEN "LevelComplete" ELSE "GameWon"
        /\ Len(targets) = Len(LayoutOf(level).targets)
        /\ gameState = "levelComplete" => level < 3
        /\ gameState = "gameWon" => level = 3

\* The fetch failed and the game is played on the built-in levels: the first
\* level was cleared and the second is built.
C20_Witness ==
  /\ loadError = FetchError
  /\ levels = FallbackLevels
  /\ level = 2
  /\ gameState = "playing"
  /\ Cardinality(GetTargetsRemaining(world)) = 3

\* The logged calls of one method.
CallsOf(name) == {k \in 1..Len(generated) : generated[k].call = name}

RangesOrdered(c) ==
  /\ c.targetCount.min <= c.targetCount.max
  /\ c.obstacleCount.min <= c.obstacleCount.max
  /\ c.targetSpawnArea.minX <= c.targetSpawnArea.maxX
  /\ c.targetSpawnArea.minY <= c.targetSpawnArea.maxY
  /\ c.obstacleSpawnArea.minX <= c.obstacleSpawnArea.maxX
  /\ c.obstacleSpawnArea.minY <= c.obstacleSpawnArea.maxY
  /\ c.obstacleSize.minWidth <= c.obstacleSize.maxWidth
  /\ c.obstacleAngleRange.min <= c.obstacleAngleRange.max

\* The layout lv respects the ranges of the config c.
WithinRanges(lv, c) ==
  /\ Len(lv.targets) \in c.targetCount.min..c.targetCount.max
  /\ Len(lv.obstacles) \in c.obstacleCount.min..c.obstacleCount.max
  /\ \A i \in 1..Len(lv.targets) :
       /\ lv.targets[i].x \in c.targetSpawnArea.minX..c.targetSpawnArea.maxX
       /\ lv.targets[i].y \in c.targetSpawnArea.minY..c.targetSpawnArea.maxY
  /\ \A i \in 1..Len(lv.obstacles) :
       /\ lv.obstacles[i].x \in c.obstacleSpawnArea.minX..c.obstacleSpawnArea.maxX
       /\ lv.obstacles[i].y \in c.obstacleSpawnArea.minY..c.obstacleSpawnArea.maxY
       /\ lv.obstacles[i].width \in c.obstacleSize.minWidth..c.obstacleSize.maxWidth
       /\ lv.obstacles[i].height = c.obstacleSize.height
       /\ lv.obstacles[i].angle \in c.obstacleAngleRange.min..c.obstacleAngleRange.max

\* C22: for a config whose ranges have min <= max, every generated layout has
\* its target count and its obstacle count within the configured counts,
\* every target within targetSpawnArea, and every obstacle within
\* obstacleSpawnArea, with a width within the configured widths, the
\* configured height and an angle within the configured angles.
C22_GeneratedLayoutWithinRanges ==
  \A k \in CallsOf("generateProceduralLevel") :
    (proceduralConfig # NoProcedural /\ RangesOrdered(proceduralConfig))
      => WithinRanges(generated[k].returned, proceduralConfig)

\* A layout was generated with the largest target count of its config and
\* more than the smallest obstacle count, from ranges that are not points.
C22_Witness ==
  \E k \in CallsOf("generateProceduralLevel") :
    /\ proceduralConfig # NoProcedural
    /\ proceduralConfig.targetCount.min < proceduralConfig.targetCount.max
    /\ Len(generated[k].returned.targets) = proceduralConfig.targetCount.max
    /\ Len(generated[k].returned.obstacles) > proceduralConfig.obstacleCount.min

\* C27: getLevel(n) for n < 1 returns no layout; for n >= 1 and L > 0
\* hand-authored levels it returns the generated layout of n exactly when
\* generation is enabled and n > startAfterLevel, and hand-authored level
\* (n - 1) mod L otherwise, so that n and n + L give the same layout when
\* generation is disabled.
C27_GetLevelCyclesOrGenerates ==
  LET L == Len(levels)
      c == proceduralConfig
  IN  /\ \A k \in CallsOf("getLevel") :
           LET n == generated[k].levelNumber
           IN  /\ n < 1 => generated[k].returned = NoLayout
               /\ (n >= 1 /\ L > 0) =>
                    IF c.enabled /\ n > c.startAfterLevel
                    THEN /\ generated[k].returned = GenerateProceduralLevel(n, c)
                         /\ generated[k].returned.id = n
                    ELSE generated[k].returned = levels[((n - 1) % L) + 1]
      /\ \A i, j \in CallsOf("getLevel") :
           ( /\ ~c.enabled /\ L > 0
             /\ generated[i].levelNumber >= 1
             /\ generated[j].levelNumber = generated[i].levelNumber + L )
           => generated[i].returned = generated[j].returned

\* With generation disabled and two hand-authored levels, getLevel was asked
\* for n and for n + 2; and for a level below 1.
C27_Witness ==
  /\ ~proceduralConfig.enabled /\ Len(levels) = 2
  /\ \E i, j, k \in CallsOf("getLevel") :
       /\ generated[i].levelNumber >= 1
       /\ generated[j].levelNumber = generated[i].levelNumber + 2
       /\ generated[k].levelNumber < 1
\* C23: every launch an input handler makes uses the (angle, power) pair the
\* handler computed last and fed to the predictor for the preview, which is
\* the pair both adapters store in dragAngle and dragPower.
C23_LaunchUsesPreviewedAim ==
  [][ launchedAim' # launchedAim
      => launchedAim' = [angle |-> dragAngle, power |-> dragPower] ]_vars

\* A step of a handler that previews an aim, or any step that stores a newly
\* computed path.
PreviewStep ==
  \/ HandleMouseDown \/ HandleMouseMove
  \/ HandleTouchStart \/ HandleTouchMove
  \/ UpdateKeyboardAim
  \/ (predictedPath' # predictedPath /\ predictedPath' # <<>>)

\* C24: computing or updating the predicted path leaves the bodies of the live
\* world, triesLeft, launched, the projectile handle, score, level and
\* gameState as they were.
C24_PreviewLeavesGameplayAlone ==
  [][ PreviewStep
      => UNCHANGED <<world, triesLeft, launched, projectile, score, level, gameState>> ]_vars

\* A pointer aim was previewed before any launch: the path is the one of the
\* aim clamped to the lowest angle.
C24_Witness ==
  /\ ~launched /\ triesLeft > 0
  /\ isDragging
  /\ predictedPath = ComputePredictedPath(MIN_ANGLE, RawAim[<<700, 560>>].power)

\* C25: the predicted path is empty from the moment a launch is accepted for
\* as long as that projectile is in flight.
C25_NoPathWhileInFlight ==
  (launched /\ projectile # Null) => predictedPath = <<>>

InRange(angleDegrees, power) ==
  /\ angleDegrees \in MIN_ANGLE..MAX_ANGLE
  /\ power \in MIN_POWER..MAX_POWER

\* C26: the aim the pointer handlers store, the keyboard's aim, every pair
\* passed to launch and every pair the predictor was run with have an angle
\* in [10, 80] and a power in [0, 100].
C26_AimsInRange ==
  /\ InRange(dragAngle, dragPower)
  /\ InRange(keyboardAngle, keyboardPower)
  /\ launchedAim # NoAim => InRange(launchedAim.angle, launchedAim.power)
  /\ \A i \in 1..Len(predictedPath) : InRange(predictedPath[i].angle, predictedPath[i].power)

\* The keyboard's aim has ticked down from the highest angle and its interval
\* runs with the two opposite angle keys held, and an aim at both upper
\* limits was launched.
C26_Witness ==
  /\ keyboardAimInterval
  /\ {"arrowup", "arrowdown"} \subseteq keysPressed
  /\ keyboardAngle = MAX_ANGLE - 1
  /\ keyboardPower = MAX_POWER
  /\ launchedAim = [angle |-> MAX_ANGLE, power |-> MAX_POWER]
\* C28: when the pool is not empty, the particle an explosion reuses first is
\* the one that has been in the pool longest (the one released earliest).
C28_ReusesOldestInactive ==
  [][ (Len(particles') > Len(particles) /\ pool # <<>>)
      => particles'[Len(particles) + 1].id = Head(pool) ]_vars
\* The score the handlers have counted: a point for each target removed, and
\* the level's points once the level is complete.
ScoreCounted ==
  STARTING_SCORE
  + (Len(targets) - Cardinality(GetTargetsRemaining(world))) * POINTS_PER_TARGET
  + (IF gameState = "levelComplete" THEN POINTS_PER_LEVEL ELSE 0)

\* C29: playSoundEffect never raises; it starts no tone when sound was off at
\* the call, when no context could be created, or after a failed
\* initialization, and a failed initialization is never followed by a
\* successful one; launch, collision and level-complete handling run to their
\* end whatever the audio does: the launch has its settlement poll, every
\* hit is removed and scored, and the end of a level has its callback
\* scheduled.
C29_AudioFailureNeverPropagates ==
  /\ ~played.raised
  /\ ~played.enabled => played.frequency = 0
  /\ initializationError => (~initialized /\ audioContext = "null" /\ played.frequency = 0)
  /\ ~initialized => played.frequency = 0
  /\ (launched /\ projectile # Null) => projectileMonitorInterval \in activeIntervals
  /\ score = ScoreCounted
  /\ gameState \in {"levelComplete", "gameWon", "levelFailed"} => Len(timeouts) = 1

\* On a host whose audio could not be initialized a level was completed: the
\* level-complete sound was asked for, and the next level is scheduled.
C29_Witness ==
  /\ initializationError
  /\ gameState = "levelComplete"
  /\ played.name = "level_complete"
  /\ timeouts # <<>>

\* The stored items that are absent or no number.
Unparseable == {NoItem, <<"a", "b", "c">>}

\* C30: before any high score is written, the high score loaded is 0 when the
\* stored item is absent or no number or when reading throws; when a level is
\* completed the in-memory high score is at least the score and the next
\* level is scheduled, whether or not writing throws; a storage that throws
\* keeps its item, one that works holds the new high score.
C30_PersistenceFailuresNonFatal ==
  /\ (gameState # "levelComplete" /\ (storageFails \/ localStorage \in Unparseable))
       => highScore = 0
  /\ gameState = "levelComplete" =>
       /\ highScore >= score
       /\ score = ScoreCounted
       /\ level = STARTING_LEVEL
       /\ triesLeft = Len(targets) - 1
       /\ Len(timeouts) = 1 /\ timeouts[1].kind = "advance"
       /\ (~storageFails /\ highScore = score) => localStorage = NumberToString(highScore)
  /\ storageFails => localStorage \in StoredItems

\* A level was completed with a new high score on a host whose storage
\* throws and held no number: the high score is in memory only.
C30_Witness ==
  /\ storageFails
  /\ localStorage = <<"a", "b", "c">>
  /\ gameState = "levelComplete"
  /\ highScore = score /\ highScore > 0

\* C31: a call of updatePredictedPath made less than THROTTLE_DELAY after the
\* last performed update leaves the predicted path and the time stamp as they
\* were; a call made at or after the delay stores the path of the given aim
\* and stamps the time of the call.
C31_PredictionIsThrottled ==
  [][pathCall' # pathCall =>
       IF pathCall'.at - lastPathUpdate < THROTTLE_DELAY
       THEN UNCHANGED <<predictedPath, lastPathUpdate>>
       ELSE /\ predictedPath' = ComputePredictedPath(pathCall'.angle, pathCall'.power)
            /\ lastPathUpdate' = pathCall'.at]_vars

\* C31: a call was skipped one millisecond short of the delay after a
\* performed update, and the path of the earlier aim is still there.
C31_Witness ==
  /\ pathCall.at = lastPathUpdate + THROTTLE_DELAY - 1
  /\ lastPathUpdate > ClockStart
  /\ predictedPath # ComputePredictedPath(pathCall.angle, pathCall.power)
  /\ predictedPath # <<>>

\* C32: pause() takes effect only from 'playing' (to 'paused', the runner
\* stopped) and resume() only from 'paused' (to 'playing', the runner
\* started); in every other state each leaves the game as it is; pause() then
\* resume() from 'playing' gives 'playing' again with the level, the score, the
\* tries, launched and the projectile handle as they were.
C32_PauseResumeToggle ==
  LET st == RoundState
      p == PauseOn(st)
      r == ResumeOn(st)
  IN  /\ st.gameState = "playing" =>
            /\ p = [st EXCEPT !.gameState = "paused", !.runnerRunning = FALSE]
            /\ ResumeOn(p) = [st EXCEPT !.runnerRunning = TRUE]
      /\ st.gameState # "playing" => p = st
      /\ st.gameState = "paused" =>
            r = [st EXCEPT !.gameState = "playing", !.runnerRunning = TRUE]
      /\ st.gameState # "paused" => r = st

\* C32: the game was paused in the middle of a flight, after a hit was scored.
C32_Witness ==
  /\ gameState = "paused"
  /\ ~runnerRunning
  /\ launched
  /\ projectile # Null
  /\ score > 0

\* C33: a timer scheduled before a reset changes nothing of the new game: the
\* level number grows only by one and only out of 'levelComplete' (the player
\* cleared the level), the rebuild of a failed level runs only in
\* 'levelFailed', and the reset that follows a win runs only in 'gameWon'.
C33_StaleTimersLeaveNewGame ==
  [][ /\ level' # level /\ level' # STARTING_LEVEL
         => level' = level + 1 /\ gameState = "levelComplete"
      /\ \A k \in 1..Len(timeouts) :
           /\ RetryTimeout(k) => gameState = "levelFailed"
           /\ WinTimeout(k) => gameState = "gameWon" ]_vars

\* C34: whenever gameState is 'playing' the runner steps the engine.
C34_PlayingMeansPhysicsRuns == gameState = "playing" => runnerRunning

\* C35: while gameState is 'paused', only resume() and resetGame() change
\* gameState, the score, the level, the tries, launched or the targets in the
\* world.
C35_PausedRoundIsFrozen ==
  [][gameState = "paused"
     => \/ Resume
        \/ Reset
        \/ /\ UNCHANGED <<gameState, score, level, triesLeft, launched>>
           /\ GetTargetsRemaining(world') = GetTargetsRemaining(world)]_vars

\* C36: launched is true exactly when the projectile handle is not null, and
\* the body a non-null handle refers to is in the live world.
C36_LaunchedIffProjectileInWorld ==
  /\ launched <=> projectile # Null
  /\ projectile # Null => projectile \in world

\* C36: a second projectile is in flight after the first was discarded by a
\* rebuild and its poll is still active.
C36_Witness ==
  /\ launched
  /\ projectile \in world
  /\ Cardinality(activeIntervals) = 2

\* C37: generated from spawn areas that are not points, the targets of a
\* layout are at pairwise distinct positions, and no two of its obstacles
\* share position, width and angle.
C37_GeneratedBodiesAreDistinct ==
  \A k \in CallsOf("generateProceduralLevel") :
    LET lv == generated[k].returned
    IN  (/\ proceduralConfig # NoProcedural
         /\ proceduralConfig.targetSpawnArea.minX < proceduralConfig.targetSpawnArea.maxX
         /\ proceduralConfig.obstacleSpawnArea.minX < proceduralConfig.obstacleSpawnArea.maxX)
        => /\ \A i, j \in 1..Len(lv.targets) :
                i # j => <<lv.targets[i].x, lv.targets[i].y>> # <<lv.targets[j].x, lv.targets[j].y>>
           /\ \A i, j \in 1..Len(lv.obstacles) : i # j => lv.obstacles[i] # lv.obstacles[j]

ValidLevelData ==
  \A n \in 1..MaxLevel : ValidateLevel(GetLevel(n, levels, proceduralConfig))

\* C39: with valid level data, whenever gameState is 'playing' and no
\* projectile is in flight there is a try left, so a launch is accepted; in
\* particular the game is never in 'playing' with nothing in flight, targets
\* remaining and no try left.
C39_NeverStranded ==
  (ValidLevelData /\ gameState = "playing" /\ ~launched /\ projectile = Null)
    => (triesLeft > 0 /\ LaunchAccepted)

\* C39: the first try of a two-target level has settled after a hit, one
\* target remains and one try is left.
C39_Witness ==
  /\ ValidLevelData
  /\ gameState = "playing"
  /\ ~launched /\ projectile = Null
  /\ Len(targets) = 2
  /\ Cardinality(GetTargetsRemaining(world)) = 1
  /\ triesLeft = 1

\* C40: a pointer release (mouse-up or touch-end) launches only when an
\* accepted pointer-down or touch-start came before it with no release in
\* between.
C40_ReleaseLaunchesOnlyItsOwnDrag ==
  [][((HandleMouseUp \/ HandleTouchEnd) /\ launched' /\ ~launched) => pointerDown]_vars

====
